---- MODULE Spec2Model ----
(***************************************************************************)
(* Verification model of gnss-nav-py: the UBX RXM-SFRBX dispatcher         *)
(* (UbxNavMessageParserHandle), the per-satellite navigation message       *)
(* accumulators (GnssNavMessage and its constellation subclasses), the     *)
(* generic frame decoder and the bit primitives they rest on.              *)
(*                                                                         *)
(* Arbitrary-width Python integers (32-bit data words, 85/128/300-bit      *)
(* frames) are represented as the set of positions of their 1-bits, bit 0  *)
(* being the least significant one.  Field values, which are at most       *)
(* 30 bits wide, are ordinary integers.                                    *)
(***************************************************************************)
EXTENDS Integers, Sequences, FiniteSets, TLC


RECURSIVE Pow2(_)
Pow2(n) == IF n <= 0 THEN 1 ELSE 2 * Pow2(n - 1)

\* Bit set of a non-negative integer: the bits of v sit at i, i + 1, ...
RECURSIVE BitsFrom(_, _)
BitsFrom(v, i) == IF v = 0 THEN {}
                  ELSE (IF v % 2 = 1 THEN {i} ELSE {}) \cup BitsFrom(v \div 2, i + 1)
ToBits(v) == BitsFrom(v, 0)

\* The integer whose bits from position i on are those of S, shifted down by i.
RECURSIVE IntFrom(_, _)
IntFrom(S, i) == IF \A j \in S : j < i THEN 0
                 ELSE (IF i \in S THEN 1 ELSE 0) + 2 * IntFrom(S, i + 1)
ToInt(S) == IntFrom(S, 0)

(***************************************************************************)
(* src/utility/int_bit_manipulator.py                                      *)
(***************************************************************************)

\* int_ >> r_shift & (2 ** bits_oi - 1) << l_shift ; Python binds the shifts
\* tighter than '&', so the mask (not the result) is shifted left.
ShiftMaskBits(int_, r_shift, l_shift, bits_oi) ==
    {j \in {i - r_shift : i \in {k \in int_ : k >= r_shift}} :
        j >= l_shift /\ j < l_shift + bits_oi}

shift_mask_int(int_, r_shift, bits_oi) == ToInt(ShiftMaskBits(int_, r_shift, 0, bits_oi))

\* int_a << l_shift_a | (int_b & 2 ** bits_oi_b - 1)
int_append_int(int_a, int_b, l_shift_a, bits_oi_b) ==
    {i + l_shift_a : i \in int_a} \cup {i \in int_b : i < bits_oi_b}

\* the value without the sign extension of uint_to_two_compl
uint_to_two_compl_unextended(value, length) == value % Pow2(length)

uint_to_two_compl(value, length) ==
    IF (value \div Pow2(length - 1)) % 2 = 0
    THEN value % Pow2(length)
    ELSE (value % Pow2(length)) - Pow2(length)

uint_to_signed_bin(value, length) ==
    LET masked   == value % Pow2(length - 1)
        sign_bit == (masked \div Pow2(length - 1)) % 2
        sign     == IF sign_bit = 0 THEN -1 ELSE 1
    IN masked * sign

(***************************************************************************)
(* src/structures/msg_item.py : MsgItem.  scale is a power-of-two exponent; *)
(* NoScale stands for scale = None.                                        *)
(***************************************************************************)
NoScale == 0

MsgItem(start, len_, two_comp, signed_bin, scale) ==
    [start |-> start, len_ |-> len_, two_comp |-> two_comp,
     signed_bin |-> signed_bin, scale |-> scale]

\* A decoded number: mantissa m times 2^e (e = NoScale: the plain integer m).
Num(m, e) == [m |-> m, e |-> e]

decode_msg_item(data, msg_item, ref_len) ==
    LET end_pos == msg_item.start + msg_item.len_
        v0 == shift_mask_int(data, ref_len - end_pos, msg_item.len_)
        v1 == IF msg_item.two_comp THEN uint_to_two_compl(v0, msg_item.len_)
              ELSE IF msg_item.signed_bin THEN uint_to_signed_bin(v0, msg_item.len_)
              ELSE v0
    IN IF msg_item.scale # NoScale THEN Num(v1, msg_item.scale) ELSE Num(v1, NoScale)

(***************************************************************************)
(* Field names are sequences of segments, the segments being joined by '_' *)
(* in the source: "m_zero_msb" is <<"m_zero", "msb">>, "red_alm_1" is      *)
(* <<"red_alm", "1">>.  The key "{uuid}_{name}" is the pair <<uuid, name>>. *)
(***************************************************************************)
N(s)   == <<s>>
Msb(s) == <<s, "msb">>
Lsb(s) == <<s, "lsb">>

EndsWith(name, sfx) == Len(name) > 1 /\ name[Len(name)] = sfx
\* name.rsplit("_msb", 1)[0]
RsplitMsb(name) == IF EndsWith(name, "msb") THEN SubSeq(name, 1, Len(name) - 1) ELSE name
\* name.startswith(tuple(prefixes))
StartsWithAny(name, prefixes) == name[1] \in prefixes

Key(uuid, s) == <<uuid, <<s>>>>

(***************************************************************************)
(* Layout tables (messages/navmsg_payload.py).  A layout is the ordered    *)
(* sequence of its <<name, MsgItem>> entries.  Lay packs the entries one   *)
(* after the other from bit offset base; an entry is <<name, len, sign,    *)
(* scale>> with sign one of "u", "tc" (two's complement), "sb" (signed     *)
(* magnitude).                                                             *)
(***************************************************************************)
RECURSIVE Lay(_, _)
Lay(base, specs) ==
    IF specs = <<>> THEN <<>>
    ELSE LET s == Head(specs)
             item == MsgItem(base, s[2], s[3] = "tc", s[3] = "sb", s[4])
         IN <<[name |-> s[1], item |-> item]>> \o Lay(base + s[2], Tail(specs))

\* GPS L-NAV, 300 bit: TLM and HOW take bits 0..59, the subframe id sits at 49..51.
LNavHead == Lay(0, << <<N("preamble"), 8, "u", NoScale>> >>)
            \o Lay(30, << <<N("tow"), 17, "u", NoScale>> >>)
            \o Lay(49, << <<N("subframe_id"), 3, "u", NoScale>> >>)

LNavPage25 == LNavHead \o Lay(60, <<
    <<N("wn"), 10, "u", NoScale>>, <<N("ura"), 4, "u", NoScale>>,
    <<N("sv_health"), 6, "u", NoScale>>, <<Msb("iodc"), 2, "u", NoScale>>,
    <<N("t_gd"), 8, "tc", -31>>, <<Lsb("iodc"), 8, "u", NoScale>>,
    <<N("t_oc"), 16, "u", 4>>, <<N("af2"), 8, "tc", -55>>,
    <<N("af1"), 16, "tc", -43>>, <<N("af0"), 22, "tc", -31>> >>)

LNavPage50 == LNavHead \o Lay(60, <<
    <<N("iode"), 8, "u", NoScale>>, <<N("crs"), 16, "tc", -5>>,
    <<N("delta_n"), 16, "tc", -43>>, <<Msb("m_zero"), 8, "tc", -31>>,
    <<Lsb("m_zero"), 14, "u", NoScale>>, <<N("cuc"), 16, "tc", -29>>,
    <<Msb("e"), 8, "u", -33>>, <<Lsb("e"), 14, "u", NoScale>>,
    <<N("cus"), 16, "tc", -29>>, <<Msb("sqrt_a"), 8, "u", -19>>,
    <<Lsb("sqrt_a"), 14, "u", NoScale>>, <<N("toe"), 16, "u", 4>> >>)

LNavPage75 == LNavHead \o Lay(60, <<
    <<N("cic"), 16, "tc", -29>>, <<Msb("omega_zero"), 8, "tc", -31>>,
    <<Lsb("omega_zero"), 14, "u", NoScale>>, <<N("cis"), 16, "tc", -29>>,
    <<Msb("i_zero"), 8, "tc", -31>>, <<Lsb("i_zero"), 14, "u", NoScale>>,
    <<N("crc"), 16, "tc", -5>>, <<Msb("omega"), 8, "tc", -31>>,
    <<Lsb("omega"), 14, "u", NoScale>>, <<N("omega_dot"), 24, "tc", -43>>,
    <<N("iode"), 8, "u", NoScale>>, <<N("idot"), 14, "tc", -43>> >>)

\* Almanac page (subframe 5 pages 1..24, subframe 4 pages 2..5, 7..10).
LNavPage125 == LNavHead \o Lay(60, <<
    <<N("data_id"), 2, "u", NoScale>>, <<N("sv_id"), 6, "u", NoScale>>,
    <<N("e"), 16, "u", -21>>, <<N("toa"), 8, "u", 12>>,
    <<N("delta_i"), 16, "tc", -19>>, <<N("omega_dot"), 16, "tc", -38>>,
    <<N("sv_health"), 8, "u", NoScale>>, <<N("sqrt_a"), 24, "u", -11>>,
    <<N("omega_zero"), 24, "tc", -23>>, <<N("omega"), 24, "tc", -23>>,
    <<N("m_zero"), 24, "tc", -23>>, <<Msb("af0"), 8, "tc", -20>>,
    <<N("af1"), 11, "tc", -38>>, <<Lsb("af0"), 3, "u", NoScale>> >>)

Payload_GPS_LNAV ==
    (<<"page", 25>> :> LNavPage25) @@ (<<"page", 50>> :> LNavPage50) @@
    (<<"page", 75>> :> LNavPage75) @@ (<<"page", 125>> :> LNavPage125)

\* GPS C-NAV, 300 bit: preamble 0..7, PRN 8..13, message type 14..19.
CNavHead == Lay(0, <<
    <<N("preamble"), 8, "u", NoScale>>, <<N("prn"), 6, "u", NoScale>>,
    <<N("msg_type_id"), 6, "u", NoScale>>, <<N("tow"), 17, "u", NoScale>>,
    <<N("alert"), 1, "u", NoScale>> >>)

CNavMessage10 == CNavHead \o Lay(38, <<
    <<N("wn"), 13, "u", NoScale>>, <<N("L1_health"), 1, "u", NoScale>>,
    <<N("L2_health"), 1, "u", NoScale>>, <<N("L5_health"), 1, "u", NoScale>>,
    <<N("t_op"), 11, "u", 8>>, <<N("ura_ed"), 5, "tc", NoScale>>,
    <<N("t_oe"), 11, "u", 8>>, <<N("delta_a"), 26, "tc", -9>>,
    <<N("a_dot"), 25, "tc", -21>>, <<N("delta_n_zero"), 17, "tc", -44>>,
    <<N("delta_n_zero_dot"), 23, "tc", -57>>, <<N("m_zero_n"), 30, "tc", -32>>,
    <<N("e_n"), 30, "u", -34>>, <<N("omega_n"), 30, "tc", -32>> >>)

CNavMessage11 == CNavHead \o Lay(38, <<
    <<N("t_oe"), 11, "u", 8>>, <<N("omega_zero_n"), 30, "tc", -32>>,
    <<N("i_zero_n"), 30, "tc", -32>>, <<N("delta_omega_dot"), 17, "tc", -44>>,
    <<N("i_o_n_dot"), 15, "tc", -44>>, <<N("cis_n"), 16, "tc", -30>>,
    <<N("cic_n"), 16, "tc", -30>>, <<N("crs_n"), 24, "tc", -8>>,
    <<N("crc_n"), 24, "tc", -8>>, <<N("cus_n"), 21, "tc", -30>>,
    <<N("cuc_n"), 21, "tc", -30>> >>)

\* Clock & differential correction: carries the packed cdc and edc blocks.
CNavMessage34 == CNavHead \o Lay(38, <<
    <<N("t_op"), 11, "u", 8>>, <<N("t_oc"), 11, "u", 8>>,
    <<N("af0_n"), 26, "tc", -35>>, <<N("top_d"), 11, "u", 8>>,
    <<N("t_od"), 11, "u", 8>>, <<N("dc_data_type"), 1, "u", NoScale>>,
    <<N("cdc"), 30, "u", NoScale>>, <<N("edc"), 30, "u", NoScale>> >>)

Payload_GPS_CNAV ==
    (<<"message", 10>> :> CNavMessage10) @@ (<<"message", 11>> :> CNavMessage11) @@
    (<<"message", 34>> :> CNavMessage34) @@
    \* midi almanac: the almanac PRN sits at bits 148..153
    (<<"message", 37>> :> CNavHead \o Lay(38, << <<N("t_op"), 11, "u", 8>>,
                                                <<N("t_oc"), 11, "u", 8>> >>)
                                   \o Lay(127, << <<N("wn_a"), 13, "u", NoScale>>,
                                                 <<N("t_oa"), 8, "u", 12>>,
                                                 <<N("prn_a"), 6, "u", NoScale>>,
                                                 <<N("e"), 11, "u", -16>> >>))

\* Packed sub-layouts of C-NAV (bit offsets relative to the packed field).
Payload_GPS_CNAV_CDC == Lay(0, <<
    <<N("prn_id"), 8, "u", NoScale>>, <<N("delta_af0"), 13, "tc", -35>>,
    <<N("delta_af1"), 8, "tc", -51>>, <<N("udra"), 5, "tc", NoScale>> >>)

Payload_GPS_CNAV_EDC == Lay(0, <<
    <<N("prn_id"), 8, "u", NoScale>>, <<N("delta_alpha"), 14, "tc", -34>>,
    <<N("delta_beta"), 14, "tc", -34>> >>)

Payload_GPS_CNAV_RED_ALM == Lay(0, <<
    <<N("prn_a"), 6, "u", NoScale>>, <<N("delta_a"), 8, "tc", 9>>,
    <<N("omega_zero"), 7, "tc", -6>>, <<N("phi_zero"), 7, "tc", -6>>,
    <<N("L1_health"), 1, "u", NoScale>>, <<N("L2_health"), 1, "u", NoScale>>,
    <<N("L5_health"), 1, "u", NoScale>> >>)

\* Galileo I-NAV, 128 bit words: word type 0..5, IODnav 6..15 / IODa 6..9.
GalHeadNav == Lay(0, << <<N("word_type"), 6, "u", NoScale>>, <<N("iod_nav"), 10, "u", NoScale>> >>)
GalHeadAlm == Lay(0, << <<N("word_type"), 6, "u", NoScale>>, <<N("iod_a"), 4, "u", NoScale>> >>)

GalWord1 == GalHeadNav \o Lay(16, <<
    <<N("t_oe"), 14, "u", 6>>, <<N("m_zero"), 30, "tc", -31>>,
    <<N("e"), 30, "u", -33>>, <<N("sqrt_a"), 30, "u", -19>> >>)
GalWord2 == GalHeadNav \o Lay(16, <<
    <<N("omega_zero"), 30, "tc", -31>>, <<N("i_zero"), 30, "tc", -31>>,
    <<N("omega"), 30, "tc", -31>>, <<N("i_dot"), 14, "tc", -43>> >>)
GalWord3 == GalHeadNav \o Lay(16, <<
    <<N("omega_dot"), 24, "tc", -43>>, <<N("delta_n"), 16, "tc", -43>>,
    <<N("cuc"), 16, "tc", -29>>, <<N("cus"), 16, "tc", -29>>,
    <<N("crc"), 16, "tc", -5>>, <<N("crs"), 16, "tc", -5>>,
    <<N("sisa"), 8, "u", NoScale>> >>)
GalWord4 == GalHeadNav \o Lay(16, <<
    <<N("svid"), 6, "u", NoScale>>, <<N("cic"), 16, "tc", -29>>,
    <<N("cis"), 16, "tc", -29>>, <<N("t_oc"), 14, "u", 6>>,
    <<N("a_f0"), 30, "tc", -34>>, <<N("a_f1"), 21, "tc", -46>>,
    <<N("a_f2"), 6, "tc", -59>> >>)
GalWord7 == GalHeadAlm \o Lay(10, <<
    <<N("wn_a"), 2, "u", NoScale>>, <<N("t_oa"), 10, "u", 9>>,
    <<N("svid_1"), 6, "u", NoScale>>, <<N("delta_sqrt_a"), 13, "tc", -9>>,
    <<N("e"), 11, "u", -16>>, <<N("omega"), 16, "tc", -15>>,
    <<N("delta_i"), 11, "tc", -14>>, <<N("omega_zero"), 16, "tc", -15>>,
    <<N("omega_dot"), 11, "tc", -33>>, <<N("m_zero"), 16, "tc", -15>> >>)
GalWord8 == GalHeadAlm \o Lay(10, <<
    <<N("a_f0"), 16, "tc", -19>>, <<N("a_f1"), 13, "tc", -38>>,
    <<N("e5b_hs"), 2, "u", NoScale>>, <<N("e1b_hs"), 2, "u", NoScale>>,
    <<N("svid_2"), 6, "u", NoScale>>, <<N("delta_sqrt_a"), 13, "tc", -9>>,
    <<N("e"), 11, "u", -16>>, <<N("omega"), 16, "tc", -15>>,
    <<N("delta_i"), 11, "tc", -14>>, <<N("omega_zero"), 16, "tc", -15>>,
    <<N("omega_dot"), 11, "tc", -33>> >>)
GalWord9 == GalHeadAlm \o Lay(10, <<
    <<N("wn_a"), 2, "u", NoScale>>, <<N("t_oa"), 10, "u", 9>>,
    <<N("m_zero"), 16, "tc", -15>>, <<N("a_f0"), 16, "tc", -19>>,
    <<N("a_f1"), 13, "tc", -38>>, <<N("e5b_hs"), 2, "u", NoScale>>,
    <<N("e1b_hs"), 2, "u", NoScale>>, <<N("svid_3"), 6, "u", NoScale>>,
    <<N("delta_sqrt_a"), 13, "tc", -9>>, <<N("e"), 11, "u", -16>>,
    <<N("omega"), 16, "tc", -15>>, <<N("delta_i"), 11, "tc", -14>> >>)
GalWord10 == GalHeadAlm \o Lay(10, <<
    <<N("omega_zero"), 16, "tc", -15>>, <<N("omega_dot"), 11, "tc", -33>>,
    <<N("m_zero"), 16, "tc", -15>>, <<N("a_f0"), 16, "tc", -19>>,
    <<N("a_f1"), 13, "tc", -38>>, <<N("e5b_hs"), 2, "u", NoScale>>,
    <<N("e1b_hs"), 2, "u", NoScale>>, <<N("a_0g"), 16, "tc", -35>>,
    <<N("a_1g"), 12, "tc", -51>>, <<N("t_0g"), 8, "u", 12>>,
    <<N("wn_0g"), 6, "u", NoScale>> >>)

Payload_GAL_INAV_WORDS ==
    (<<"word_type", 1>> :> GalWord1) @@ (<<"word_type", 2>> :> GalWord2) @@
    (<<"word_type", 3>> :> GalWord3) @@ (<<"word_type", 4>> :> GalWord4) @@
    (<<"word_type", 7>> :> GalWord7) @@ (<<"word_type", 8>> :> GalWord8) @@
    (<<"word_type", 9>> :> GalWord9) @@ (<<"word_type", 10>> :> GalWord10)

\* Nominal I-NAV frame layout: for every sub-frame and band the almanac
\* satellite ids carried by its almanac words.  Odd sub-frames carry words 7
\* and 8, even sub-frames words 9 and 10; E1-B runs 18 satellites ahead of E5b.
GalNofSubframes == 24
GalNofAlmSvs == 36
GalAlmSv(band, n) == IF band = "E5b" THEN n ELSE ((n + 17) % GalNofAlmSvs) + 1
Payload_GAL_INAV_NOMINAL_FRAME_LAYOUT ==
    [sf \in 1..GalNofSubframes |->
        [band \in {"E5b", "E1B"} |->
            LET b == 3 * ((sf - 1) \div 2)
            IN IF sf % 2 = 1
               THEN (7 :> {GalAlmSv(band, b + 1)}) @@ (8 :> {GalAlmSv(band, b + 2)})
               ELSE (9 :> {GalAlmSv(band, b + 3)}) @@ (10 :> {GalAlmSv(band, b + 3)})]]

\* GLONASS, 85 bit strings: idle bit 0, string number 1..4.
GloHead == Lay(1, << <<N("string_nr"), 4, "u", NoScale>> >>)

GloString1 == GloHead \o Lay(7, <<
    <<N("p1"), 2, "u", NoScale>>, <<N("t_k_hour"), 5, "u", NoScale>>,
    <<N("t_k_min"), 6, "u", NoScale>>, <<N("t_k_sec"), 1, "u", NoScale>>,
    <<N("x_dot"), 24, "sb", -20>>, <<N("x_dot_dot"), 5, "sb", -30>>,
    <<N("x"), 27, "sb", -11>> >>)
GloString2 == GloHead \o Lay(5, <<
    <<N("b_n"), 3, "u", NoScale>>, <<N("p2"), 1, "u", NoScale>>,
    <<N("t_b"), 7, "u", NoScale>> >>) \o Lay(21, <<
    <<N("y_dot"), 24, "sb", -20>>, <<N("y_dot_dot"), 5, "sb", -30>>,
    <<N("y"), 27, "sb", -11>> >>)
GloString3 == GloHead \o Lay(5, <<
    <<N("p3"), 1, "u", NoScale>>, <<N("gamma_n"), 11, "sb", -40>> >>) \o Lay(18, <<
    <<N("p"), 2, "u", NoScale>>, <<N("l_n"), 1, "u", NoScale>>,
    <<N("z_dot"), 24, "sb", -20>>, <<N("z_dot_dot"), 5, "sb", -30>>,
    <<N("z"), 27, "sb", -11>> >>)
GloString4 == GloHead \o Lay(5, <<
    <<N("tau_n"), 22, "sb", -30>>, <<N("delta_tau_n"), 5, "sb", -30>>,
    <<N("e_n"), 5, "u", NoScale>> >>) \o Lay(51, <<
    <<N("p4"), 1, "u", NoScale>>, <<N("f_t"), 4, "u", NoScale>> >>) \o Lay(59, <<
    <<N("n_t"), 11, "u", NoScale>>, <<N("n"), 5, "u", NoScale>>,
    <<N("m"), 2, "u", NoScale>> >>)
GloString5 == GloHead \o Lay(5, <<
    <<N("n-a"), 11, "u", NoScale>>, <<N("tau_c"), 30, "sb", -31>> >>) \o Lay(49, <<
    <<N("n_4"), 5, "u", NoScale>>, <<N("tau_gps"), 22, "sb", -30>>,
    <<N("l_n"), 1, "u", NoScale>> >>)
\* Almanac strings: the even string of a pair, then the odd one.
GloStringAlmA == GloHead \o Lay(5, <<
    <<N("c_n"), 1, "u", NoScale>>, <<N("m_n-a"), 2, "u", NoScale>>,
    <<N("n-a"), 5, "u", NoScale>>, <<N("tau-a_n"), 10, "sb", -18>>,
    <<N("lambda-a_n"), 21, "sb", -20>>, <<N("delta_i-a_n"), 18, "sb", -20>>,
    <<N("epsilon-a_n"), 15, "u", -20>> >>)
GloStringAlmB == GloHead \o Lay(5, <<
    <<N("omega-a_n"), 16, "sb", -15>>, <<N("t-a_lambda-n"), 21, "u", -5>>,
    <<N("delta_t-a_n"), 22, "sb", -9>>, <<N("delta_t_dot-a_n"), 7, "sb", -14>>,
    <<N("h-a_n"), 5, "u", NoScale>>, <<N("l_n"), 1, "u", NoScale>> >>)

\* Strings 14 and 15 of frame 5 carry time parameters instead of an almanac.
GloString514 == GloHead \o Lay(5, <<
    <<N("b1"), 11, "sb", -10>>, <<N("b2"), 10, "sb", -16>>, <<N("kp"), 2, "u", NoScale>> >>)
GloString515 == GloHead \o Lay(5, << <<N("l_n"), 1, "u", NoScale>> >>)

Payload_GLO_NAV ==
    [k \in {<<"string", s>> : s \in (1..15) \cup {70, 75}} |->
        CASE k[2] = 1 -> GloString1 [] k[2] = 2 -> GloString2 [] k[2] = 3 -> GloString3
          [] k[2] = 4 -> GloString4 [] k[2] = 5 -> GloString5
          [] k[2] = 70 -> GloString514 [] k[2] = 75 -> GloString515
          [] k[2] > 5 /\ k[2] % 2 = 0 -> GloStringAlmA
          [] OTHER -> GloStringAlmB]

\* BeiDou D1, 300 bit: preamble 0..10, subframe id 15..17, page number 43..49.
BdsHead == Lay(0, <<
    <<N("pre"), 11, "u", NoScale>>, <<N("rev"), 4, "u", NoScale>>,
    <<N("fra_id"), 3, "u", NoScale>>, <<N("sow"), 20, "u", NoScale>> >>)
BdsPnum == Lay(43, << <<N("pnum"), 7, "u", NoScale>> >>)

BdsSubframe1 == BdsHead \o Lay(38, <<
    <<N("sat_h1"), 1, "u", NoScale>>, <<N("aodc"), 5, "u", NoScale>>,
    <<N("urai"), 4, "u", NoScale>>, <<N("wn"), 13, "u", NoScale>>,
    <<N("t_oc"), 17, "u", 3>>, <<N("t_gd1"), 10, "tc", NoScale>>,
    <<N("a_2"), 11, "tc", -66>>, <<N("a_0"), 24, "tc", -33>>,
    <<N("a_1"), 22, "tc", -50>>, <<N("aode"), 5, "u", NoScale>> >>)
BdsSubframe2 == BdsHead \o Lay(38, <<
    <<N("delta_n"), 16, "tc", -43>>, <<N("cuc"), 18, "tc", -31>>,
    <<N("m_zero"), 30, "tc", -31>>, <<N("e"), 30, "u", -33>>,
    <<N("cus"), 18, "tc", -31>>, <<N("crc"), 18, "tc", -6>>,
    <<N("crs"), 18, "tc", -6>>, <<N("sqrt_a"), 30, "u", -19>>,
    <<N("t_oe"), 10, "u", NoScale>> >>)
BdsSubframe3 == BdsHead \o Lay(38, <<
    <<N("t_oe"), 10, "u", NoScale>>, <<N("i_zero"), 30, "tc", -31>>,
    <<N("cic"), 18, "tc", -31>>, <<N("omega_dot"), 24, "tc", -43>>,
    <<N("cis"), 18, "tc", -31>>, <<N("idot"), 14, "tc", -43>>,
    <<N("omega_zero"), 30, "tc", -31>>, <<N("omega"), 30, "tc", -31>> >>)
BdsAlmFields == <<
    <<N("sqrt_a"), 24, "u", -11>>, <<N("a_1"), 11, "tc", -38>>,
    <<N("a_0"), 11, "tc", -20>>, <<N("omega_zero"), 24, "tc", -23>>,
    <<N("e"), 17, "u", -21>>, <<N("delta_i"), 16, "tc", -19>>,
    <<N("t_oa"), 8, "u", 12>>, <<N("omega_dot"), 17, "tc", -38>>,
    <<N("omega"), 24, "tc", -23>>, <<N("m_zero"), 24, "tc", -23>> >>
\* Base almanac page (subframe 4 pages 1..24, subframe 5 pages 1..6).
BdsSubframe4 == BdsHead \o BdsPnum \o Lay(50, BdsAlmFields \o
    << <<N("amp_ep_id"), 2, "u", NoScale>> >>)
\* Health pages 7 and 8 of subframe 5.
BdsSubframe7 == BdsHead \o BdsPnum \o
    Lay(50, [i \in 1..19 |-> <<<<"hea", ToString(i)>>, 9, "u", NoScale>>])
BdsSubframe8 == BdsHead \o BdsPnum \o
    Lay(50, [i \in 1..11 |-> <<<<"hea", ToString(19 + i)>>, 9, "u", NoScale>>]) \o
    Lay(149, << <<N("wn_a"), 8, "u", NoScale>>, <<N("t_oa"), 8, "u", 12>> >>)
BdsSubframe9 == BdsHead \o BdsPnum \o Lay(50, <<
    <<N("a_0gps"), 14, "tc", NoScale>>, <<N("a_1gps"), 16, "tc", NoScale>> >>)
BdsSubframe10 == BdsHead \o BdsPnum \o Lay(50, <<
    <<N("delta_t_ls"), 8, "tc", NoScale>>, <<N("a_0utc"), 30, "tc", -30>> >>)
\* Expanded almanac page (subframe 5 pages 11..23): AmID at bits 290..291.
BdsSubframe11 == BdsHead \o BdsPnum \o Lay(50, BdsAlmFields) \o
    Lay(290, << <<N("am_id"), 2, "u", NoScale>> >>)
\* Page 24 of subframe 5: health of the expanded almanacs, AmID at 215..216.
BdsSubframe24 == BdsHead \o BdsPnum \o
    Lay(50, [i \in 1..13 |-> <<<<"hea", ToString(30 + i)>>, 9, "u", NoScale>>]) \o
    Lay(215, << <<N("am_id"), 2, "u", NoScale>> >>)

Payload_BDS_D1_NAV ==
    (<<"subframe", 1>> :> BdsSubframe1) @@ (<<"subframe", 2>> :> BdsSubframe2) @@
    (<<"subframe", 3>> :> BdsSubframe3) @@ (<<"subframe", 4>> :> BdsSubframe4) @@
    (<<"subframe", 7>> :> BdsSubframe7) @@ (<<"subframe", 8>> :> BdsSubframe8) @@
    (<<"subframe", 9>> :> BdsSubframe9) @@ (<<"subframe", 10>> :> BdsSubframe10) @@
    (<<"subframe", 11>> :> BdsSubframe11) @@ (<<"subframe", 24>> :> BdsSubframe24)

(***************************************************************************)
(* src/messages/gnss_nav_message.py                                        *)
(***************************************************************************)
\* GnssNavMsgId
UNDEFINED == 0
GPS_LNAV == 1
GPS_CNAV == 2
GLON_NAV == 4
GAL_INAV == 6
BEID_D1 == 10
BEID_D2 == 11
NavMsgIds == {GPS_LNAV, GPS_CNAV, GLON_NAV, GAL_INAV, BEID_D1, BEID_D2}

\* The uuid None, as BdsD2NavMessage.get_uuid returns it.
UuidNone == -1000

\* Decimal digits of a positive integer, most significant first (str(uuid)).
RECURSIVE Digits(_)
Digits(n) == IF n < 10 THEN <<n>> ELSE Digits(n \div 10) \o <<n % 10>>
\* int() of a digit string; the empty string is not reached.
RECURSIVE FromDigits(_)
FromDigits(ds) == IF ds = <<>> THEN 0
                  ELSE 10 * FromDigits(SubSeq(ds, 1, Len(ds) - 1)) + ds[Len(ds)]

\* A layout looked up in a table, <<>> (the empty dict) on KeyError.
Lookup(table, key) == IF key \in DOMAIN table THEN table[key] ELSE <<>>
Found(exc, bp) == [exc |-> exc, bp |-> bp]

len_frame(cls) ==
    CASE cls \in {GPS_LNAV, GPS_CNAV} -> 300
      [] cls = GAL_INAV -> 128
      [] cls = GLON_NAV -> 85
      [] OTHER -> 300

items_require_spec_postproc(cls) ==
    IF cls = GPS_CNAV THEN {"red_alm", "cdc", "edc"} ELSE {}

\* LNavGpsMessage.page_to_sheet: the sheet of a (subframe, page), 0 if none.
LNav_nof_pages == 25
page_to_sheet(sf_id, page_id) ==
    IF sf_id = 4 THEN
        CASE page_id \in {1, 6, 11, 16, 21} -> 100
          [] page_id \in {12, 19, 20, 22, 23, 24} -> 111
          [] page_id = 18 -> 117
          [] page_id = 25 -> 124
          [] page_id = 13 -> 112
          [] page_id \in {14, 15, 17} -> 113
          [] page_id \in {2, 3, 4, 5, 7, 8, 9, 10} -> 125
          [] OTHER -> 0
    ELSE IF sf_id = 5 THEN
        CASE page_id \in 1..24 -> 125
          [] page_id = 25 -> 149
          [] OTHER -> 0
    ELSE 0

LNav_uuid_to_payload(uuid) ==
    LET sheet == page_to_sheet(uuid \div LNav_nof_pages, (uuid % LNav_nof_pages) + 1)
        key == IF uuid >= 100
               THEN (IF sheet # 0 THEN <<"page", sheet>> ELSE <<"">>)
               ELSE <<"page", uuid>>
    IN Found("none", Lookup(Payload_GPS_LNAV, key))

\* No KeyError handling around the table access.
CNav_uuid_to_payload(uuid) ==
    IF <<"message", uuid>> \in DOMAIN Payload_GPS_CNAV
    THEN Found("none", Payload_GPS_CNAV[<<"message", uuid>>])
    ELSE Found("KeyError", <<>>)

Gal_uuid_to_payload(uuid) ==
    LET ds == IF uuid > 0 THEN Digits(uuid) ELSE <<>>
        starts10 == Len(ds) >= 2 /\ ds[1] = 1 /\ ds[2] = 0
        advanced == ds # <<>> /\ (ds[1] \in {7, 8, 9} \/ starts10)
        key == IF advanced
               THEN <<"word_type", IF starts10 THEN 10 ELSE ds[1]>>
               ELSE <<"word_type", uuid>>
    IN Found("none", Lookup(Payload_GAL_INAV_WORDS, key))

\* int(uuid_str[1:]) raises ValueError on a one-digit uuid above 5.
Glon_uuid_to_payload(uuid) ==
    IF uuid <= 5 THEN Found("none", Lookup(Payload_GLO_NAV, <<"string", uuid>>))
    ELSE LET ds == Digits(uuid)
             f_id == ds[1]
             s_id == FromDigits(Tail(ds))
             key == IF f_id = 5 /\ s_id \in {14, 15}
                    THEN <<"string", f_id * s_id>> ELSE <<"string", s_id>>
         IN IF Len(ds) = 1 THEN Found("ValueError", <<>>)
            ELSE Found("none", Lookup(Payload_GLO_NAV, key))

BdsD1_NofFrames == 24
BdsD1_uuid_to_payload(uuid) ==
    LET sf_id == uuid \div BdsD1_NofFrames
        pn == uuid % BdsD1_NofFrames
        ds == Digits(uuid)
        pg == FromDigits(SubSeq(ds, Len(ds) - 2, Len(ds) - 1))
        k == IF uuid <= 3 THEN uuid
             ELSE IF uuid < 400 THEN
                 (IF sf_id = 4 \/ (sf_id = 5 /\ pn \in 1..6) THEN 4
                  ELSE IF sf_id = 5 /\ pn \in 7..10 THEN pn ELSE 0)
             ELSE IF pg \in 11..23 THEN 11
             ELSE IF pg = 24 THEN 24 ELSE 0
    IN Found("none", Lookup(Payload_BDS_D1_NAV, <<"subframe", k>>))

\* BdsD2NavMessage.uuid_to_payload is a stub returning None.
BdsD2_uuid_to_payload(uuid) == Found("none", <<>>)

uuid_to_payload(cls, uuid) ==
    CASE cls = GPS_LNAV -> LNav_uuid_to_payload(uuid)
      [] cls = GPS_CNAV -> CNav_uuid_to_payload(uuid)
      [] cls = GAL_INAV -> Gal_uuid_to_payload(uuid)
      [] cls = GLON_NAV -> Glon_uuid_to_payload(uuid)
      [] cls = BEID_D1 -> BdsD1_uuid_to_payload(uuid)
      [] OTHER -> BdsD2_uuid_to_payload(uuid)

\* GnssNavMessage._decode_msg_item: an '_msb'/'_lsb' field keeps its raw bits
\* and its descriptor for the post-processing, any other field is decoded.
\* (raw = TRUE stands for the tuple (msg_item, val).)
decode_item(cls, name, msg_item, val) ==
    IF EndsWith(name, "msb") \/ EndsWith(name, "lsb")
    THEN [name |-> name, raw |-> TRUE, item |-> msg_item,
          bits |-> shift_mask_int(val, len_frame(cls) - (msg_item.start + msg_item.len_),
                                  msg_item.len_),
          val |-> Num(0, NoScale)]
    ELSE [name |-> name, raw |-> FALSE, item |-> msg_item, bits |-> 0,
          val |-> decode_msg_item(val, msg_item, len_frame(cls))]

\* GnssNavMessage._decode_items (the dict, in insertion order).
decode_items(cls, blueprint, payload) ==
    [i \in 1..Len(blueprint) |->
        decode_item(cls, blueprint[i].name, blueprint[i].item, payload)]

\* items.get(name): the index of the entry called name, 0 for None.
ItemIndex(items, name) ==
    IF \E i \in 1..Len(items) : items[i].name = name
    THEN CHOOSE i \in 1..Len(items) : items[i].name = name
    ELSE 0

\* dict.update({k: v})
DictPut(d, k, v) == [x \in DOMAIN d \cup {k} |-> IF x = k THEN v ELSE d[x]]
EmptyDict == [x \in {} |-> Num(0, NoScale)]

\* CNavGpsMessage.rename_specific_package: the loop variable shadows the
\* parameter key, so the new key is built from the last visited key of pck.
CNav_rename_specific_package(key, pck) ==
    LET prnIdx == {i \in 1..Len(pck) : pck[i].name[1] \in {"prn", "prn_a", "prn_id"}}
        brk == IF prnIdx = {} THEN 0 ELSE CHOOSE i \in prnIdx : \A j \in prnIdx : i <= j
    IN IF brk = 0 THEN [ok |-> FALSE, key |-> key, prn |-> -1]
       ELSE [ok |-> TRUE, key |-> pck[brk].name, prn |-> pck[brk].val.m]

\* getattr(self.items_require_spec_postproc, key, None): a dict has no
\* attribute named after a field, so the default None comes back.
spec_postproc_blueprint(cls, key) == <<>>

\* GnssNavMessage._specific_unpacking
specific_unpacking(cls, key, val) ==
    LET blueprint == spec_postproc_blueprint(cls, key)
        values == decode_items(cls, blueprint, ToBits(val.m))
        rn == CNav_rename_specific_package(key, values)
    IN IF blueprint # <<>>
       THEN [ok |-> rn.ok, name |-> rn.key \o <<"sv", ToString(rn.prn)>>]
       ELSE [ok |-> FALSE, name |-> key]

\* GnssNavMessage._post_process_items from entry i on; result is the dict
\* built so far.  ok = FALSE: NavMsgError raised, d being the dict at that point.
RECURSIVE post_process_from(_, _, _, _)
post_process_from(cls, items, i, result) ==
    IF i > Len(items) THEN [ok |-> TRUE, d |-> result]
    ELSE
      LET it == items[i]
          name == it.name
          new_name == RsplitMsb(name)
          isMsb == EndsWith(name, "msb")
          lsbIdx == ItemIndex(items, new_name \o <<"lsb">>)
          lsb == items[lsbIdx]
          catBits == int_append_int(ToBits(it.bits), ToBits(lsb.bits),
                                    lsb.item.len_, lsb.item.len_)
          dummy_msg_item == MsgItem(0, it.item.len_ + lsb.item.len_,
                                    it.item.two_comp, FALSE, it.item.scale)
          packed == StartsWithAny(name, items_require_spec_postproc(cls))
          up == specific_unpacking(cls, new_name, it.val)
          val == IF isMsb THEN decode_msg_item(catBits, dummy_msg_item, dummy_msg_item.len_)
                 ELSE it.val
      IN IF EndsWith(name, "lsb") THEN post_process_from(cls, items, i + 1, result)
         ELSE IF isMsb /\ lsbIdx = 0 THEN [ok |-> FALSE, d |-> result]
         ELSE IF packed
              THEN (IF up.ok
                    THEN post_process_from(cls, items, i + 1, DictPut(result, up.name, it.val))
                    ELSE [ok |-> FALSE, d |-> result])
         ELSE post_process_from(cls, items, i + 1, DictPut(result, new_name, val))

post_process_items(cls, items) == post_process_from(cls, items, 1, EmptyDict)

\* A merge that adds a frame's value to the one already stored under the key.
MergeItems_accumulating(data, uuid, d) ==
    [k \in DOMAIN data \cup {<<uuid, n>> : n \in DOMAIN d} |->
        IF k[1] = uuid /\ k[2] \in DOMAIN d
        THEN (IF k \in DOMAIN data
              THEN Num((data[k].m + d[k[2]].m) % Pow2(30), d[k[2]].e)
              ELSE d[k[2]])
        ELSE data[k]]
\* for item_name, item in items.items(): self.data.update({f"{uuid}_{item_name}": item})
MergeItems(data, uuid, d) ==
    [k \in DOMAIN data \cup {<<uuid, n>> : n \in DOMAIN d} |->
        IF k[1] = uuid /\ k[2] \in DOMAIN d THEN d[k[2]] ELSE data[k]]

\* An add_frame that merges item by item while it post-processes, so that a
\* failure leaves the items before it in the field map.
add_frame_item_by_item(cls, data, uuid, payload) ==
    LET f == uuid_to_payload(cls, uuid)
        items == decode_items(cls, f.bp, payload)
        pp == post_process_items(cls, items)
    IN IF f.exc # "none" THEN [data |-> data, ret |-> FALSE, exc |-> f.exc]
       ELSE IF f.bp = <<>> THEN [data |-> data, ret |-> FALSE, exc |-> "none"]
       ELSE IF ~pp.ok
       THEN [data |-> MergeItems(data, uuid, pp.d), ret |-> FALSE, exc |-> "NavMsgError"]
       ELSE [data |-> MergeItems(data, uuid, pp.d), ret |-> TRUE, exc |-> "none"]
\* GnssNavMessage.add_frame: the field map after the call, the returned
\* bool and the exception that left the call ("none" if it returned).
add_frame(cls, data, uuid, payload) ==
    LET f == uuid_to_payload(cls, uuid)
        items == decode_items(cls, f.bp, payload)
        pp == post_process_items(cls, items)
    IN IF f.exc # "none" THEN [data |-> data, ret |-> FALSE, exc |-> f.exc]
       ELSE IF f.bp = <<>> THEN [data |-> data, ret |-> FALSE, exc |-> "none"]
       ELSE IF ~pp.ok THEN [data |-> data, ret |-> FALSE, exc |-> "NavMsgError"]
       ELSE [data |-> MergeItems(data, uuid, pp.d), ret |-> TRUE, exc |-> "none"]

(***************************************************************************)
(* Record builders.  A record is a function from its field names to        *)
(* numbers; spec is the sequence of <<field, key>> the constructor call    *)
(* reads, in evaluation order.                                             *)
(***************************************************************************)
Missing(data, spec) == {i \in 1..Len(spec) : spec[i][2] \notin DOMAIN data}

Record(data, svid, spec) ==
    [f \in {"svid"} \cup {spec[i][1] : i \in 1..Len(spec)} |->
        IF f = "svid" THEN svid
        ELSE data[spec[CHOOSE i \in 1..Len(spec) : spec[i][1] = f][2]]]

\* Keys read by LNavGpsMessage._build_ephemeris.
LNavEphemerisSpec == <<
    <<"delta_n", Key(50, "delta_n")>>, <<"m_zero", Key(50, "m_zero")>>,
    <<"crs", Key(50, "crs")>>, <<"cuc", Key(50, "cuc")>>, <<"e", Key(50, "e")>>,
    <<"cus", Key(50, "cus")>>, <<"toe", Key(50, "toe")>>, <<"cic", Key(75, "cic")>>,
    <<"omega_zero", Key(75, "omega_zero")>>, <<"cis", Key(75, "cis")>>,
    <<"i_zero", Key(75, "i_zero")>>, <<"crc", Key(75, "crc")>>,
    <<"omega", Key(75, "omega")>>, <<"iode", Key(50, "iode")>>,
    <<"sqrt_a", Key(50, "sqrt_a")>>, <<"omega_dot", Key(75, "idot")>>,
    <<"idot", Key(75, "idot")>> >>

\* Keys read by CNavGpsMessage._build_ephemeris (after the t_oe assertion).
CNavEphemerisSpec == <<
    <<"delta_omega_dot", Key(11, "delta_omega_dot")>>, <<"i_zero_dot", Key(11, "i_o_n_dot")>>,
    <<"wn", Key(10, "wn")>>, <<"ura_ed", Key(10, "ura_ed")>>,
    <<"sig_health_L1", Key(10, "L1_health")>>, <<"sig_health_L2", Key(10, "L2_health")>>,
    <<"sig_health_L5", Key(10, "L5_health")>>, <<"top", Key(10, "t_op")>>,
    <<"delta_a", Key(10, "delta_a")>>, <<"a_dot", Key(10, "a_dot")>>,
    <<"delta_n_zero_dot", Key(10, "delta_n_zero_dot")>>,
    <<"delta_n", Key(10, "delta_n_zero")>>, <<"m_zero", Key(10, "m_zero_n")>>,
    <<"crs", Key(11, "crc_n")>>, <<"cuc", Key(11, "cuc_n")>>, <<"e", Key(10, "e_n")>>,
    <<"cus", Key(11, "cus_n")>>, <<"toe", Key(10, "t_oe")>>, <<"cic", Key(11, "cic_n")>>,
    <<"omega_zero", Key(11, "omega_zero_n")>>, <<"cis", Key(11, "cis_n")>>,
    <<"i_zero", Key(11, "i_zero_n")>>, <<"crc", Key(11, "crc_n")>>,
    <<"omega", Key(10, "omega_n")>> >>

GalEphemerisSpec == <<
    <<"m_zero", Key(1, "m_zero")>>, <<"omega_dot", Key(3, "omega_dot")>>,
    <<"delta_n", Key(3, "delta_n")>>, <<"i_zero", Key(2, "i_zero")>>,
    <<"sqrt_a", Key(1, "sqrt_a")>>, <<"omega_zero", Key(2, "omega_zero")>>,
    <<"omega", Key(2, "omega")>>, <<"i_dot", Key(2, "i_dot")>>, <<"e", Key(1, "e")>>,
    <<"cic", Key(4, "cic")>>, <<"cis", Key(4, "cis")>>, <<"crc", Key(3, "crc")>>,
    <<"crs", Key(3, "crs")>>, <<"cuc", Key(3, "cuc")>>, <<"cus", Key(3, "cus")>>,
    <<"toe", Key(1, "t_oe")>> >>

GlonEphemerisSpec == <<
    <<"string_number", Key(1, "string_nr")>>, <<"t_k_hour", Key(1, "t_k_hour")>>,
    <<"t_k_min", Key(1, "t_k_min")>>, <<"t_k_sec", Key(1, "t_k_sec")>>,
    <<"t_b", Key(2, "t_b")>>, <<"m", Key(4, "m")>>, <<"gamma_n", Key(3, "gamma_n")>>,
    <<"tau_n", Key(4, "tau_n")>>, <<"x_n", Key(1, "x")>>, <<"y_n", Key(2, "y")>>,
    <<"z_n", Key(3, "z")>>, <<"x_dot_n", Key(1, "x_dot")>>, <<"y_dot_n", Key(2, "y_dot")>>,
    <<"z_dot_n", Key(3, "z_dot")>>, <<"x_dot_dot_n", Key(1, "x_dot_dot")>>,
    <<"y_dot_dot_n", Key(2, "y_dot_dot")>>, <<"z_dot_dot_n", Key(3, "z_dot_dot")>>,
    <<"b_n", Key(2, "b_n")>>, <<"p", Key(3, "p")>>, <<"n_t", Key(4, "n_t")>>,
    <<"f_t", Key(4, "f_t")>>, <<"n", Key(4, "n")>>,
    <<"delta_tau_n", Key(4, "delta_tau_n")>>, <<"e_n", Key(4, "e_n")>>,
    <<"p1", Key(1, "p1")>>, <<"p2", Key(2, "p2")>>, <<"p3", Key(3, "p3")>>,
    <<"p4", Key(4, "p4")>>, <<"l_3rd_n", Key(3, "l_n")>> >>

\* Keys read by BdsD1NavMessage._build_ephemeris; t_oe comes from _calculate_toe.
BdsD1EphemerisSpec == <<
    <<"sqrt_a", Key(2, "sqrt_a")>>, <<"e", Key(2, "e")>>, <<"omega", Key(3, "omega")>>,
    <<"delta_n", Key(2, "delta_n")>>, <<"m_zero", Key(2, "m_zero")>>,
    <<"omega_zero", Key(3, "omega_zero")>>, <<"omega_dot", Key(3, "omega_dot")>>,
    <<"i_zero", Key(3, "i_zero")>>, <<"idot", Key(3, "idot")>>, <<"cuc", Key(2, "cuc")>>,
    <<"cus", Key(2, "cus")>>, <<"crc", Key(2, "crc")>>, <<"crs", Key(2, "crs")>>,
    <<"cic", Key(3, "cic")>>, <<"cis", Key(3, "cis")>>, <<"t_oc", Key(1, "t_oc")>>,
    <<"a_0", Key(1, "a_0")>>, <<"a_1", Key(1, "a_1")>>, <<"a_2", Key(1, "a_2")>>,
    <<"aode", Key(1, "aode")>> >>

\* BdsD1NavMessage._calculate_toe: 0 when one of the halves is missing.
BdsD1_calculate_toe(data) ==
    IF Key(2, "t_oe") \in DOMAIN data /\ Key(3, "t_oe") \in DOMAIN data
    THEN Num(ToInt(int_append_int(ToBits(data[Key(2, "t_oe")].m),
                                  ToBits(data[Key(3, "t_oe")].m), 10, 10)) * 8, NoScale)
    ELSE Num(0, NoScale)

EphemerisSpec(cls) ==
    CASE cls = GPS_LNAV -> LNavEphemerisSpec
      [] cls = GPS_CNAV -> CNavEphemerisSpec
      [] cls = GAL_INAV -> GalEphemerisSpec
      [] cls = GLON_NAV -> GlonEphemerisSpec
      [] cls = BEID_D1 -> BdsD1EphemerisSpec
      [] OTHER -> <<>>

\* _build_ephemeris of every class: eph is the new value of self._ephemeris,
\* the empty set (None) or the singleton of the record; swallowed is the
\* exception the except clause raised (the Galileo and GLONASS ones only
\* warn) and exc the one that left the method.
\* Every implementation ends in 'finally: return None', which discards the
\* exception under way; the D2 one is a stub.
Kept(old, swallowed) == [eph |-> old, exc |-> "none", swallowed |-> swallowed]
Stored(rec) == [eph |-> {rec}, exc |-> "none", swallowed |-> "none"]
\* A builder that stores a record of the keys that are there.
build_ephemeris_of_present_keys(cls, svid, data, old) ==
    Stored(Record(data, Num(svid, NoScale),
                  SelectSeq(EphemerisSpec(cls), LAMBDA e : e[2] \in DOMAIN data)))
build_ephemeris(cls, svid, data, old) ==
    CASE cls = BEID_D2 -> Kept(old, "none")
      [] cls = GPS_CNAV ->
           IF Key(10, "t_oe") \notin DOMAIN data \/ Key(11, "t_oe") \notin DOMAIN data
           THEN Kept(old, "NavMsgError")
           ELSE IF data[Key(10, "t_oe")] # data[Key(11, "t_oe")] THEN Kept(old, "NavMsgError")
           ELSE IF Missing(data, CNavEphemerisSpec) # {} THEN Kept(old, "NavMsgError")
           ELSE Stored(Record(data, Num(svid, NoScale), CNavEphemerisSpec))
      [] cls = BEID_D1 ->
           IF Missing(data, BdsD1EphemerisSpec) # {} THEN Kept(old, "ValueError")
           ELSE Stored([f \in {"t_oe"} |-> BdsD1_calculate_toe(data)]
                       @@ Record(data, Num(svid, NoScale), BdsD1EphemerisSpec))
      [] OTHER ->
           IF Missing(data, EphemerisSpec(cls)) # {}
           THEN Kept(old, IF cls = GPS_LNAV THEN "ValueError" ELSE "none")
           ELSE Stored(Record(data, Num(svid, NoScale), EphemerisSpec(cls)))

\* A getter that hands out the cached value and never builds.
ephemeris_never_built(cls, svid, data, eph) == Kept(eph, "none")
\* GnssNavMessage.ephemeris (property): builds only while nothing is cached.
ephemeris(cls, svid, data, eph) ==
    IF eph = {} THEN build_ephemeris(cls, svid, data, eph) ELSE Kept(eph, "none")

\* dict.update: the slots of recs replace or extend those of alm.
AlmUpdate(alm, recs) ==
    [p \in DOMAIN alm \cup DOMAIN recs |-> IF p \in DOMAIN recs THEN recs[p] ELSE alm[p]]
EmptyAlmanac == [p \in {} |-> EmptyDict]
Built(alm, exc) == [alm |-> alm, exc |-> exc]

\* LNavGpsMessage._build_almanac
LNav_sf_4_map_uuid_sv == (25 :> 2) @@ (26 :> 3) @@ (27 :> 4) @@ (28 :> 5) @@
                         (29 :> 7) @@ (30 :> 8) @@ (31 :> 9) @@ (32 :> 10)
LNavAlmanacSpec(prn) ==
    LET key == IF prn <= 24 THEN 125 + prn - 1 ELSE 100 + LNav_sf_4_map_uuid_sv[prn] - 1
    IN << <<"sv_health", Key(key, "sv_health")>>, <<"e", Key(key, "e")>>,
          <<"toa", Key(key, "toa")>>, <<"delta_i", Key(key, "delta_i")>>,
          <<"omega_dot", Key(key, "omega_dot")>>, <<"sqrt_a", Key(key, "sqrt_a")>>,
          <<"omega_zero", Key(key, "omega_zero")>>, <<"omega", Key(key, "omega")>>,
          <<"m_zero", Key(key, "m_zero")>>, <<"af_0", Key(key, "af0")>>,
          <<"af_1", Key(key, "af1")>> >>
LNav_build_almanac(data, alm) ==
    LET rec(prn) == Record(data, Num(prn, NoScale), LNavAlmanacSpec(prn))
        new == {prn \in 1..32 : Missing(data, LNavAlmanacSpec(prn)) = {}}
    IN Built(AlmUpdate(alm, [p \in new |-> rec(p)]), "none")

\* GlonNavMessage._build_almanac
DigitCat(a, b) == FromDigits(Digits(a) \o Digits(b))
GlonAlmanacSpec(prn_alm) ==
    LET frame_id == ((prn_alm - 1) \div 5) + 1
        string == 6 + ((prn_alm - 1) % 5) * 2
        k1 == DigitCat(frame_id, string)
        k2 == DigitCat(frame_id, string + 1)
    IN << <<"sv_health", Key(k2, "l_n")>>, <<"n_a", Key(k1, "n-a")>>,
          <<"h_n_a", Key(k2, "h-a_n")>>, <<"lambda_n_a", Key(k1, "lambda-a_n")>>,
          <<"t_lambda_n_a", Key(k2, "t-a_lambda-n")>>,
          <<"delta_i_n_a", Key(k1, "delta_i-a_n")>>,
          <<"delta_t_n_a", Key(k2, "delta_t-a_n")>>,
          <<"delta_t_dot_n_a", Key(k2, "delta_t_dot-a_n")>>,
          <<"epsilon_n_a", Key(k1, "epsilon-a_n")>>, <<"omega_n_a", Key(k2, "omega-a_n")>>,
          <<"m_n_a", Key(k1, "m_n-a")>>, <<"tau_n_a", Key(k1, "tau-a_n")>>,
          <<"c_n_a", Key(k1, "c_n")>> >>
Glon_build_almanac(data, alm) ==
    LET rec(prn) == Record(data, Num(prn, NoScale), GlonAlmanacSpec(prn))
        new == {prn \in 1..24 : Missing(data, GlonAlmanacSpec(prn)) = {}}
    IN Built(AlmUpdate(alm, [p \in new |-> rec(p)]), "none")

\* str.replace("7", repl, 1) on a digit string.
ReplaceFirst7(ds, repl) ==
    LET idx == {i \in 1..Len(ds) : ds[i] = 7}
        i == CHOOSE x \in idx : \A y \in idx : x <= y
    IN IF idx = {} THEN ds
       ELSE SubSeq(ds, 1, i - 1) \o repl \o SubSeq(ds, i + 1, Len(ds))

\* INavGalMessage._build_almanac.  order is the insertion order of the uuids
\* in self.data; the almanac sets are visited in that order.
GalAlmIds(data, order) ==
    LET w7s == SelectSeq(order, LAMBDA u : u > 0 /\ Digits(u)[1] = 7
                                         /\ Key(u, "iod_a") \in DOMAIN data)
        ids(u) == <<u, FromDigits(ReplaceFirst7(Digits(u), <<8>>)),
                       FromDigits(ReplaceFirst7(Digits(u + 1), <<9>>)),
                       FromDigits(ReplaceFirst7(Digits(u + 1), <<1, 0>>))>>
        complete(u) == \A j \in 2..4 : Key(ids(u)[j], "iod_a") \in DOMAIN data
    IN [i \in 1..Len(SelectSeq(w7s, complete)) |-> ids(SelectSeq(w7s, complete)[i])]

GalAlmanacSpec(id, n) ==
    LET w7 == id[1]
        w8 == id[2]
        w9 == id[3]
        w10 == id[4]
    IN CASE n = 1 -> <<
          <<"delta_sqrt_a", Key(w7, "delta_sqrt_a")>>, <<"e", Key(w7, "e")>>,
          <<"delta_i", Key(w7, "delta_i")>>, <<"omega_zero", Key(w7, "omega_zero")>>,
          <<"omega_dot", Key(w7, "omega_dot")>>, <<"omega", Key(w7, "omega")>>,
          <<"m_zero", Key(w7, "m_zero")>>, <<"a_f0", Key(w8, "a_f0")>>,
          <<"a_f1", Key(w8, "a_f1")>>, <<"iod_a", Key(w7, "iod_a")>>,
          <<"t_oa", Key(w7, "t_oa")>>, <<"wn_a", Key(w7, "wn_a")>>,
          <<"e5_b_hs", Key(w8, "e5b_hs")>>, <<"e1_b_hs", Key(w8, "e1b_hs")>> >>
         [] n = 2 -> <<
          <<"delta_sqrt_a", Key(w8, "delta_sqrt_a")>>, <<"e", Key(w8, "e")>>,
          <<"delta_i", Key(w8, "delta_i")>>, <<"omega_zero", Key(w8, "omega_zero")>>,
          <<"omega_dot", Key(w8, "omega_dot")>>, <<"omega", Key(w8, "omega")>>,
          <<"m_zero", Key(w9, "m_zero")>>, <<"a_f0", Key(w9, "a_f0")>>,
          <<"a_f1", Key(w9, "a_f1")>>, <<"iod_a", Key(w9, "iod_a")>>,
          <<"t_oa", Key(w9, "t_oa")>>, <<"wn_a", Key(w9, "wn_a")>>,
          <<"e5_b_hs", Key(w9, "e5b_hs")>>, <<"e1_b_hs", Key(w9, "e1b_hs")>> >>
         [] OTHER -> <<
          <<"delta_sqrt_a", Key(w9, "delta_sqrt_a")>>, <<"e", Key(w9, "e")>>,
          <<"delta_i", Key(w9, "delta_i")>>, <<"omega_zero", Key(w10, "omega_zero")>>,
          <<"omega_dot", Key(w10, "omega_dot")>>, <<"omega", Key(w9, "omega")>>,
          <<"m_zero", Key(w10, "m_zero")>>, <<"a_f0", Key(w10, "a_f0")>>,
          <<"a_f1", Key(w10, "a_f1")>>, <<"iod_a", Key(w9, "iod_a")>>,
          <<"t_oa", Key(w9, "t_oa")>>, <<"wn_a", Key(w9, "wn_a")>>,
          <<"e5_b_hs", Key(w10, "e5b_hs")>>, <<"e1_b_hs", Key(w10, "e1b_hs")>> >>

GalSvidKey(id, n) == Key(id[n], CASE n = 1 -> "svid_1" [] n = 2 -> "svid_2" [] OTHER -> "svid_3")

RECURSIVE Gal_build_from(_, _, _, _)
Gal_build_from(data, ids, i, alm) ==
    IF i > Len(ids) THEN alm
    ELSE LET id == ids[i]
             ok == \A n \in 1..3 : GalSvidKey(id, n) \in DOMAIN data
                                   /\ Missing(data, GalAlmanacSpec(id, n)) = {}
             prn(n) == data[GalSvidKey(id, n)]
             rec(n) == Record(data, prn(n), GalAlmanacSpec(id, n))
             put(a, n) == IF prn(n).m # 0 THEN DictPut(a, prn(n).m, rec(n)) ELSE a
         IN Gal_build_from(data, ids, i + 1,
                           IF ok THEN put(put(put(alm, 1), 2), 3) ELSE alm)
Gal_build_almanac(data, order, alm) ==
    Built(Gal_build_from(data, GalAlmIds(data, order), 1, alm), "none")

\* BdsD1NavMessage._build_almanac
BdsD1_AmpEpId == 3
BdsBaseHealthKey(prn) == <<IF prn < 20 THEN 127 ELSE 128, <<"hea", ToString(prn)>>>>
BdsExtUuid(page, am_id) == (5 * BdsD1_NofFrames + page) * 1000 + page * 10 + am_id
BdsExtHealthKey(page, am_id) ==
    <<(5 * BdsD1_NofFrames + 24) * 1000 + 24 * 10 + am_id, <<"hea", ToString(20 + page)>>>>
BdsAlmanacSpec(uuid, prn, health_key) == <<
    <<"sv_health", health_key>>, <<"t_oa", Key(uuid, "t_oa")>>,
    <<"sqrt_a", Key(uuid, "sqrt_a")>>, <<"e", Key(uuid, "e")>>,
    <<"omega", Key(uuid, "omega")>>, <<"m_zero", Key(uuid, "m_zero")>>,
    <<"omega_zero", Key(uuid, "omega_zero")>>, <<"omega_dot", Key(uuid, "omega_dot")>>,
    <<"delta_i", Key(uuid, "delta_i")>>, <<"a_zero", Key(uuid, "a_0")>>,
    <<"a_one", Key(uuid, "a_1")>>,
    <<"am_id", Key(uuid, IF prn < 31 THEN "amp_ep_id" ELSE "am_id")>> >>
BdsD1_build_almanac(data, alm) ==
    LET base == {prn \in 1..30 : Key(96 + prn, "pre") \in DOMAIN data
                                 /\ BdsBaseHealthKey(prn) \in DOMAIN data}
        isThree(prn) == Key(96 + prn, "amp_ep_id") \in DOMAIN data
                        /\ data[Key(96 + prn, "amp_ep_id")].m = BdsD1_AmpEpId
        \* all(...) stops at the first slot that is not 3; a slot without the key
        \* reached before that raises KeyError.
        keyError == \E prn \in base : Key(96 + prn, "amp_ep_id") \notin DOMAIN data
                                      /\ \A q \in base : q < prn => isThree(q)
        use_amp_ep_id == \A prn \in base : isThree(prn)
        slots == {sl \in (11..23) \X (1..3) : ~(sl[2] = 3 /\ sl[1] > 18)}
        ext == IF use_amp_ep_id /\ base # {}
               THEN {sl \in slots : Key(BdsExtUuid(sl[1], sl[2]), "pre") \in DOMAIN data
                                    /\ BdsExtHealthKey(sl[1], sl[2]) \in DOMAIN data}
               ELSE {}
        extPrn(sl) == 20 + sl[1] + 13 * (sl[2] - 1)
        slotOf(prn) == CHOOSE sl \in ext : extPrn(sl) = prn
        spec(prn) == IF prn < 31 THEN BdsAlmanacSpec(96 + prn, prn, BdsBaseHealthKey(prn))
                     ELSE BdsAlmanacSpec(BdsExtUuid(slotOf(prn)[1], slotOf(prn)[2]), prn,
                                         BdsExtHealthKey(slotOf(prn)[1], slotOf(prn)[2]))
        cand == base \cup {extPrn(sl) : sl \in ext}
        new == {prn \in cand : Missing(data, spec(prn)) = {}}
        rec(prn) == Record(data, Num(prn, NoScale), spec(prn))
    IN IF keyError THEN Built(alm, "KeyError")
       ELSE Built(AlmUpdate(alm, [p \in new |-> rec(p)]), "none")

\* _build_almanac of every class; the C-NAV and D2 ones are stubs.
build_almanac(cls, data, order, alm) ==
    CASE cls = GPS_LNAV -> LNav_build_almanac(data, alm)
      [] cls = GLON_NAV -> Glon_build_almanac(data, alm)
      [] cls = GAL_INAV -> Gal_build_almanac(data, order, alm)
      [] cls = BEID_D1 -> BdsD1_build_almanac(data, alm)
      [] OTHER -> Built(alm, "none")

\* GnssNavMessage.almanac (property): builds only while the dict is empty.
almanac(cls, data, order, alm) ==
    IF DOMAIN alm = {} THEN build_almanac(cls, data, order, alm) ELSE Built(alm, "none")

(***************************************************************************)
(* Frame identifiers (get_uuid).  ok = FALSE: NavMsgError.                 *)
(***************************************************************************)
Ident(ok, uuid) == [ok |-> ok, uuid |-> uuid]

LNav_DataId == 1
\* LNavGpsMessage.page_lookup: the page of (subframe, SV id), 0 if absent.
page_lookup(sf_id, sv_id) ==
    IF sf_id = 4 THEN
        CASE sv_id = 57 -> 1 [] sv_id \in 25..28 -> sv_id - 23 [] sv_id \in 29..32 -> sv_id - 22
          [] sv_id = 62 -> 12 [] sv_id \in 52..54 -> sv_id - 39 [] sv_id \in 55..56 -> sv_id - 38
          [] sv_id \in 58..59 -> sv_id - 39 [] sv_id \in 60..61 -> sv_id - 38
          [] sv_id = 63 -> 25 [] OTHER -> 0
    ELSE CASE sv_id \in 1..24 -> sv_id [] sv_id = 51 -> 25 [] OTHER -> 0

\* the page number itself added to sub-frame * 25
LNav_get_uuid_page(payload) ==
    LET sf_id == shift_mask_int(payload, 300 - (30 * 1 + 22), 3)
        data_id == shift_mask_int(payload, 300 - (30 * 2 + 2), 2)
        sv_id == shift_mask_int(payload, 300 - (30 * 2 + 8), 6)
        page_id == page_lookup(sf_id, sv_id)
    IN IF sf_id \notin 1..5 THEN Ident(FALSE, -1)
       ELSE IF sf_id \notin {4, 5} THEN Ident(TRUE, sf_id * LNav_nof_pages)
       ELSE IF sv_id = 0 \/ data_id # LNav_DataId \/ page_id = 0 THEN Ident(FALSE, -1)
       ELSE Ident(TRUE, sf_id * LNav_nof_pages + page_id)

LNav_get_uuid(payload) ==
    LET sf_id == shift_mask_int(payload, 300 - (30 * 1 + 22), 3)
        data_id == shift_mask_int(payload, 300 - (30 * 2 + 2), 2)
        sv_id == shift_mask_int(payload, 300 - (30 * 2 + 8), 6)
        page_id == page_lookup(sf_id, sv_id)
    IN IF sf_id \notin 1..5 THEN Ident(FALSE, -1)
       ELSE IF sf_id \notin {4, 5} THEN Ident(TRUE, sf_id * LNav_nof_pages)
       ELSE IF sv_id = 0 THEN Ident(FALSE, -1)
       ELSE IF data_id # LNav_DataId THEN Ident(FALSE, -1)
       ELSE IF page_id = 0 THEN Ident(FALSE, -1)
       ELSE Ident(TRUE, sf_id * LNav_nof_pages + page_id - 1)

LNav_uuid_pages == {25, 50, 75} \cup ((100..124) \ {105}) \cup (125..149)

CNav_uuid_msg_types == {10, 11, 30, 31, 32, 33, 34, 35, 36, 37, 12, 13, 14}
\* union of the values of CNavGpsMessage.uuid_dict
CNav_uuid_dict_all == {10, 11} \cup (30..37) \cup {12, 13, 14, 15}

\* CNavGpsMessage.get_uuid: message type, midi almanac PRN, reduced almanac PRNs.
CNav_get_uuid(payload) ==
    LET msg_type_id == shift_mask_int(payload, 300 - 20, 6)
        mask == IF msg_type_id = 12 THEN <<65, 96, 127, 158, 189, 220, 251>>
                ELSE <<154, 185, 216, 247>>
    IN [ok |-> ~(msg_type_id = 0 \/ msg_type_id \notin CNav_uuid_msg_types),
        msg_type_id |-> msg_type_id,
        midi_alm_prn |-> IF msg_type_id = 37 THEN shift_mask_int(payload, 300 - 154, 6) ELSE 0,
        red_alm_prns |-> IF msg_type_id \in {12, 31}
                         THEN [i \in 1..Len(mask) |-> shift_mask_int(payload, 300 - mask[i], 6)]
                         ELSE <<>>]

\* '0'.join(map(str, prns)) as a digit string
RECURSIVE JoinZero(_)
JoinZero(prns) == IF Len(prns) = 1 THEN Digits(prns[1])
                  ELSE Digits(prns[1]) \o <<0>> \o JoinZero(Tail(prns))

\* INavGalMessage.get_uuid: (uuid, iod, sf_id_final, alm_sv_id)
Gal_get_uuid(word, freq_id, alm_sv_id_in) ==
    LET word_type == shift_mask_int(word, 122, 6)
        plain == word_type < 7 \/ word_type \in 16..20
        alm == word_type \in 7..10
        iod == IF plain THEN (IF 0 < word_type /\ word_type < 5
                              THEN shift_mask_int(word, 128 - 16, 10) ELSE -1)
               ELSE IF alm THEN shift_mask_int(word, 118, 4) ELSE -1
        alm_sv_id == CASE alm /\ word_type = 7 -> shift_mask_int(word, 100, 6)
                       [] alm /\ word_type = 8 -> shift_mask_int(word, 79, 6)
                       [] alm /\ word_type = 9 -> shift_mask_int(word, 51, 6)
                       [] OTHER -> alm_sv_id_in
        search == alm /\ alm_sv_id # 0 /\ freq_id \in {1, 5}
        key == IF freq_id = 5 THEN "E5b" ELSE "E1B"
        layout == Payload_GAL_INAV_NOMINAL_FRAME_LAYOUT
        hits == {sf \in DOMAIN layout :
                    (7 \in DOMAIN layout[sf][key]) = (word_type \in {7, 8})
                    /\ alm_sv_id \in layout[sf][key][word_type]}
        sf_id_final == IF search /\ hits # {}
                       THEN CHOOSE sf \in hits : \A o \in hits : sf <= o ELSE -1
    IN [uuid |-> IF plain \/ search THEN word_type ELSE -1,
        iod |-> iod, sf_id |-> sf_id_final, alm_sv_id |-> alm_sv_id]

\* GlonNavMessage.uuid and get_uuid
Glon_uuid == (1..5) \cup {DigitCat(f, st) : f \in 1..5, st \in 6..15}
\* the sum frame_nr * 10 + string_nr in place of the digits of the two
Glon_get_uuid_sum(frame_nr, string_nr) ==
    IF string_nr <= 5 THEN string_nr
    ELSE IF string_nr \in 6..15 /\ frame_nr > 0 THEN frame_nr * 10 + string_nr
    ELSE -1
Glon_get_uuid(frame_nr, string_nr) ==
    IF string_nr <= 5 THEN string_nr
    ELSE IF string_nr \in 6..15 /\ frame_nr > 0 THEN DigitCat(frame_nr, string_nr)
    ELSE -1

BdsD1_SV_IDs == 6..58
BdsD2_SV_IDs == (1..5) \cup (59..63)
BdsD1_get_uuid(payload) ==
    LET sf_id == shift_mask_int(payload, 300 - 18, 3)
        page_num == shift_mask_int(payload, 300 - 50, 7)
        uuid == sf_id * BdsD1_NofFrames + page_num
        hasAm == sf_id = 5 /\ page_num \in 11..24
        am_id == IF page_num \in 11..23 THEN shift_mask_int(payload, 8, 2)
                 ELSE shift_mask_int(payload, 83, 2)
    IN IF 0 < sf_id /\ sf_id < 4 THEN sf_id
       ELSE IF sf_id \notin {4, 5} THEN 0
       ELSE IF page_num \notin 1..24 THEN 0
       ELSE IF ~hasAm THEN uuid
       ELSE IF am_id = 0 THEN 0
       ELSE FromDigits(Digits(uuid) \o Digits(page_num) \o Digits(am_id))

(***************************************************************************)
(* src/ubx_nav_message_parser.py.  A UBX message is a record               *)
(* [identity, gnssId, svId, numWords, freqId, dwrds], dwrds being the      *)
(* sequence dwrd_01.. of 32-bit words.                                     *)
(***************************************************************************)
UbxGps == 0
UbxSbas == 1
UbxGalileo == 2
UbxBeiDou == 3
UbxGlonass == 6
\* UbxSignalId[UbxGnssId.Galileo].keys()
UbxSignalIdGalileo == {0, 1, 5, 6}
GpsPreamble == 139

ubx_rxm_sfrbx_dwrds(ubx_msg) ==
    SubSeq(ubx_msg.dwrds, 1, IF ubx_msg.numWords < Len(ubx_msg.dwrds)
                             THEN ubx_msg.numWords ELSE Len(ubx_msg.dwrds))

\* for word in words: acc = int_append_int(acc, word, l_shift, bits_oi)
RECURSIVE AppendWords(_, _, _, _)
AppendWords(acc, words, l_shift, bits_oi) ==
    IF words = <<>> THEN acc
    ELSE AppendWords(int_append_int(acc, Head(words), l_shift, bits_oi),
                     Tail(words), l_shift, bits_oi)

sfrbx_lift_gal_inav(dwrds) ==
    LET n == Len(dwrds)
        w0 == ShiftMaskBits(dwrds[1], 0, 0, 30)
        w2 == AppendWords(w0, SubSeq(dwrds, 2, IF n < 3 THEN n ELSE 3), 32, 32)
        w3 == IF n >= 4 THEN int_append_int(w2, ShiftMaskBits(dwrds[4], 14, 0, 18), 18, 18)
              ELSE w2
    IN IF n >= 5 THEN int_append_int(w3, ShiftMaskBits(dwrds[5], 14, 0, 16), 16, 16) ELSE w3

\* (string, string_nr, f_nr); the third word is OR-ed over the low bits of
\* the first two: shift 11, mask 21.
sfrbx_lift_glon_nav(dwrds) ==
    LET n == Len(dwrds)
        s2 == AppendWords({}, SubSeq(dwrds, 1, IF n < 2 THEN n ELSE 2), 32, 32)
    IN [string |-> IF n >= 3 THEN int_append_int(s2, dwrds[3], 11, 21) ELSE s2,
        string_nr |-> IF n >= 1 THEN shift_mask_int(dwrds[1], 27, 4) ELSE 0,
        f_nr |-> IF n >= 4 /\ dwrds[4] # {} THEN shift_mask_int(dwrds[4], 0, 8) ELSE 0]

sfrbx_lift_bds_nav(dwrds) == AppendWords({}, dwrds, 30, 30)

\* Result of a _preprocess_ubx_* method: exc is the exception that left it.
Prep(nav_msg_id, uuid, raw) ==
    [exc |-> "none", nav_msg_id |-> nav_msg_id, uuid |-> uuid, raw |-> raw]
PrepRaise(exc) == [exc |-> exc, nav_msg_id |-> UNDEFINED, uuid |-> -1, raw |-> {}]

preprocess_ubx_gps(ubx_msg) ==
    LET data == ubx_rxm_sfrbx_dwrds(ubx_msg)
        lraw == AppendWords({}, data, 30, 30)
        lid == LNav_get_uuid(lraw)
        craw == int_append_int(AppendWords({}, SubSeq(data, 1, Len(data) - 1), 32, 32),
                               data[Len(data)], 12, 12)
        cid == CNav_get_uuid(craw)
    IN IF ubx_msg.numWords # 10 THEN PrepRaise("UbxNavDecodeError")
       ELSE IF data = <<>> THEN PrepRaise("IndexError")
       ELSE IF shift_mask_int(data[1], 22, 8) = GpsPreamble
       THEN (IF ~lid.ok THEN PrepRaise("UbxNavDecodeError")
             ELSE IF lid.uuid \in LNav_uuid_pages THEN Prep(GPS_LNAV, lid.uuid, lraw)
             ELSE PrepRaise("UbxNavDecodeError"))
       ELSE IF shift_mask_int(data[1], 24, 8) = GpsPreamble
       THEN (IF ~cid.ok THEN PrepRaise("UbxNavDecodeError")
             ELSE IF cid.msg_type_id \notin CNav_uuid_msg_types
                  THEN PrepRaise("UbxNavDecodeError")
             ELSE IF cid.msg_type_id \notin CNav_uuid_dict_all
                  THEN PrepRaise("UbxNavDecodeError")
             ELSE IF cid.midi_alm_prn # 0
                  THEN Prep(GPS_CNAV, cid.msg_type_id * 10 + cid.midi_alm_prn, craw)
             ELSE IF cid.red_alm_prns # <<>>
                  THEN Prep(GPS_CNAV, FromDigits(Digits(cid.msg_type_id) \o <<0>>
                                                 \o JoinZero(cid.red_alm_prns)), craw)
             ELSE Prep(GPS_CNAV, cid.msg_type_id, craw))
       ELSE PrepRaise("UbxNavDecodeError")

preprocess_ubx_glon(ubx_msg) ==
    LET l == sfrbx_lift_glon_nav(ubx_rxm_sfrbx_dwrds(ubx_msg))
        uuid == Glon_get_uuid(l.f_nr, l.string_nr)
    IN IF uuid \in Glon_uuid /\ ubx_msg.svId # 255 THEN Prep(GLON_NAV, uuid, l.string)
       ELSE Prep(UNDEFINED, -1, l.string)

preprocess_ubx_bds(ubx_msg) ==
    LET sub_frame == sfrbx_lift_bds_nav(ubx_rxm_sfrbx_dwrds(ubx_msg))
        uuid == BdsD1_get_uuid(sub_frame)
    IN IF ubx_msg.svId \in BdsD1_SV_IDs
       THEN Prep(IF uuid > 0 THEN BEID_D1 ELSE UNDEFINED, uuid, sub_frame)
       ELSE IF ubx_msg.svId \in BdsD2_SV_IDs THEN Prep(BEID_D2, UuidNone, sub_frame)
       ELSE Prep(UNDEFINED, 0, sub_frame)

\* _preprocess_ubx_gal, the checks of the page-type and even/odd bits of the
\* two half pages: the exception raised, "none" for a nominal even/odd pair.
\* The calls for the first half pass their last argument by position, where
\* it is l_shift and bits_oi stays 0: shift_mask_int(words[0], 31, 1).
gal_page_check(words) ==
    LET odd_1 == ToInt(ShiftMaskBits(words[1], 31, 1, 0))
        odd_2 == shift_mask_int(words[5], 31, 1)
        p_t_1 == ToInt(ShiftMaskBits(words[1], 30, 1, 0))
        p_t_2 == shift_mask_int(words[5], 30, 1)
    IN IF p_t_1 = 1 \/ p_t_2 = 1 THEN "UbxNavDecodeError"
       ELSE IF odd_1 # 0 \/ odd_2 # 1 THEN "UbxNavDecodeError"
       ELSE "none"

\* _preprocess_ubx_gal: p is the result, helper the new value of
\* self._static_galileo_alm_helper (a map from <<freq_id, svId>> to the
\* almanac SV id last seen on that signal).
preprocess_ubx_gal(ubx_msg, helper) ==
    LET freq_id == CASE ubx_msg.numWords = 8 -> 5
                     [] ubx_msg.numWords = 9 -> 1
                     [] OTHER -> ubx_msg.freqId
        all_words == ubx_rxm_sfrbx_dwrds(ubx_msg)
        words == SubSeq(all_words, 1, IF Len(all_words) < 8 THEN Len(all_words) ELSE 8)
        word == sfrbx_lift_gal_inav(words)
        alm_in == IF <<freq_id, ubx_msg.svId>> \in DOMAIN helper
                  THEN helper[<<freq_id, ubx_msg.svId>>] ELSE 0
        id == Gal_get_uuid(word, freq_id, alm_in)
        valid == id.sf_id > 0 /\ id.alm_sv_id > 0
        uuid_data == IF id.uuid \in 7..10
                     THEN (IF valid
                           THEN FromDigits(Digits(id.uuid) \o <<id.iod \div 10, id.iod % 10>>
                                           \o <<id.sf_id \div 10, id.sf_id % 10>>)
                           ELSE -1)
                     ELSE id.uuid
        helper2 == IF id.uuid \in 7..10 /\ valid
                   THEN DictPut(helper, <<freq_id, ubx_msg.svId>>, id.alm_sv_id) ELSE helper
    IN IF freq_id \notin UbxSignalIdGalileo
       THEN [p |-> PrepRaise("UbxNavDecodeError"), helper |-> helper]
       ELSE IF Len(words) < 5 THEN [p |-> PrepRaise("IndexError"), helper |-> helper]
       ELSE IF gal_page_check(words) # "none"
       THEN [p |-> PrepRaise(gal_page_check(words)), helper |-> helper]
       ELSE IF id.uuid <= 0 THEN [p |-> Prep(UNDEFINED, -1, {}), helper |-> helper]
       ELSE IF id.uuid \in 7..10 /\ valid /\ ~(10001 < uuid_data /\ uuid_data <= 201524)
       THEN [p |-> PrepRaise("AssertionError"), helper |-> helper2]
       ELSE IF uuid_data > 0 THEN [p |-> Prep(GAL_INAV, uuid_data, word), helper |-> helper2]
       ELSE [p |-> Prep(UNDEFINED, uuid_data, {}), helper |-> helper2]

\* preprocess_ubx: 'finally: return result' ends the method whatever was
\* raised inside; ok = FALSE stands for the result None.
preprocess_ubx_result(g) ==
    [ok |-> g.p.exc = "none" /\ g.p.nav_msg_id # UNDEFINED,
     caught |-> g.p.exc, exc |-> "none",
     nav_msg_id |-> g.p.nav_msg_id, uuid |-> g.p.uuid, raw |-> g.p.raw,
     helper |-> g.helper]
preprocess_ubx(ubx_msg, helper) ==
    preprocess_ubx_result(
        IF ubx_msg.gnssId = UbxGalileo THEN preprocess_ubx_gal(ubx_msg, helper)
        ELSE [p |-> CASE ubx_msg.gnssId = UbxGps -> preprocess_ubx_gps(ubx_msg)
                      [] ubx_msg.gnssId = UbxGlonass -> preprocess_ubx_glon(ubx_msg)
                      [] ubx_msg.gnssId = UbxBeiDou -> preprocess_ubx_bds(ubx_msg)
                      [] OTHER -> PrepRaise("NotImplementedError"),
              helper |-> helper])

\* A message accumulator: class, svid, self.data, self._ephemeris ({} for
\* None) and self._almanac.  order is the part of the insertion order of
\* self.data a builder depends on: the uuids of the I/NAV almanac words of
\* type 7 in the order they entered the dict.
NewMsg(cls, svid) ==
    [cls |-> cls, svid |-> svid, data |-> EmptyDict, order |-> <<>>,
     eph |-> {}, alm |-> EmptyAlmanac]

\* An adapter that knows no D2 message class.
determine_nav_msg_without_d2(nav_msg_id, svid) ==
    IF nav_msg_id \in NavMsgIds \ {UNDEFINED, BEID_D2}
    THEN [exc |-> "none", msg |-> NewMsg(nav_msg_id, svid)]
    ELSE [exc |-> "NotImplementedError", msg |-> NewMsg(UNDEFINED, svid)]
\* NavMessageParser.determine_nav_msg
determine_nav_msg(nav_msg_id, svid) ==
    IF nav_msg_id \in NavMsgIds \ {UNDEFINED}
    THEN [exc |-> "none", msg |-> NewMsg(nav_msg_id, svid)]
    ELSE [exc |-> "NotImplementedError", msg |-> NewMsg(UNDEFINED, svid)]

\* add_frame on an accumulator object
\* r is what add_frame made of the accumulator's field map.
msg_after_frame(msg, uuid, r) ==
    LET seen == \E i \in 1..Len(msg.order) : msg.order[i] = uuid
        tracked == msg.cls = GAL_INAV /\ uuid > 0 /\ Digits(uuid)[1] = 7
    IN [msg |-> [msg EXCEPT !.data = r.data,
                            !.order = IF r.ret /\ tracked /\ ~seen THEN Append(@, uuid) ELSE @],
        ret |-> r.ret, exc |-> r.exc]
\* An accumulator that keeps the first frame of every uuid.
msg_add_frame_first_wins(msg, uuid, payload) ==
    IF \E k \in DOMAIN msg.data : k[1] = uuid
    THEN [msg |-> msg, ret |-> TRUE, exc |-> "none"]
    ELSE msg_after_frame(msg, uuid, add_frame(msg.cls, msg.data, uuid, payload))
msg_add_frame(msg, uuid, payload) ==
    msg_after_frame(msg, uuid, add_frame(msg.cls, msg.data, uuid, payload))

\* NavMessageParser.decode_subframe: the 'finally: return None' discards the
\* NavMsgDecodingError raised in the except clause.  failed records the
\* exception add_frame left with.
Propagated(r) ==
    [msg |-> r.msg, failed |-> r.exc,
     exc |-> IF r.exc # "none" THEN "NavMsgDecodingError" ELSE "none"]
Discarded(r) == [msg |-> r.msg, failed |-> r.exc, exc |-> "none"]
\* decode_subframe without the 'finally: return None'.
decode_subframe_propagating(gnss_nav_msg, uuid, payload) ==
    Propagated(msg_add_frame(gnss_nav_msg, uuid, payload))
decode_subframe(gnss_nav_msg, uuid, payload) ==
    Discarded(msg_add_frame(gnss_nav_msg, uuid, payload))

\* NavMessageParser.decode_nav_msg, the try block: the frames are added in
\* the order of the lists; the first add_frame that raises ends the loop, the
\* except clause prints, and 'finally: return msg' hands out what was built
\* so far.  After a loop without exception the two getters are read.
RECURSIVE decode_frames(_, _, _)
decode_frames_next(r, frames, i) ==
    IF r.exc # "none" THEN r.msg ELSE decode_frames(r.msg, frames, i + 1)
decode_frames(msg, frames, i) ==
    IF i > Len(frames)
    THEN [msg EXCEPT !.eph = ephemeris(msg.cls, msg.svid, msg.data, msg.eph).eph,
                     !.alm = almanac(msg.cls, msg.data, msg.order, msg.alm).alm]
    ELSE decode_frames_next(msg_add_frame(msg, frames[i].uuid, frames[i].payload), frames, i)
\* NavMessageParser.decode_nav_msg on the items of _raw_data[gnss][svid][id],
\* as UbxNavMessageParserHandle.decode_nav_msg lists them.  The message ids
\* the dispatcher stores are the implemented ones.
decode_nav_msg(nav_msg_id, svid, frames) ==
    decode_frames(determine_nav_msg(nav_msg_id, svid).msg, frames, 1)

\* Dispatcher state: _raw_data and gnss_msgs, flattened to maps from the
\* triple <<gnss_id, sv_id, nav_msg_id>>, and _static_galileo_alm_helper.
\* _raw_data[t] holds the payloads of the uuids.
Handle(raw, msgs, helper) == [raw_data |-> raw, gnss_msgs |-> msgs, helper |-> helper]
EmptyMap == [x \in {} |-> {}]
NewHandle == Handle(EmptyMap, EmptyMap, EmptyMap)

\* _raw_data[gnss_id][sv_id][nav_msg_id] is a dict: it is iterated in the order
\* its uuids were first inserted, and update replaces the payload of a uuid
\* in place.  It is kept as the sequence of its items.
RawUuids(frames) == {frames[i].uuid : i \in DOMAIN frames}
RawGet(frames, uuid) ==
    frames[CHOOSE i \in DOMAIN frames : frames[i].uuid = uuid].payload
RawUpdate(frames, uuid, payload) ==
    IF uuid \in RawUuids(frames)
    THEN [i \in DOMAIN frames |->
             IF frames[i].uuid = uuid THEN [uuid |-> uuid, payload |-> payload]
             ELSE frames[i]]
    ELSE Append(frames, [uuid |-> uuid, payload |-> payload])
RawPut(raw, t, uuid, payload) ==
    DictPut(raw, t, RawUpdate(IF t \in DOMAIN raw THEN raw[t] ELSE <<>>, uuid, payload))

\* UbxNavMessageParserHandle.add_subframe: the handle after the call, the
\* returned bool, the exception that left the call, and what happened inside
\* (accepted: preprocessing yielded a tuple; failed: exception of add_frame).
\* the part of add_subframe after decode_subframe: h holds the stored payload
\* and the accumulator the frame went to, dec is what decode_subframe made
add_subframe_decoded(h, t, uuid, dec) ==
    [h |-> Handle(h.raw_data, DictPut(h.gnss_msgs, t, dec.msg), h.helper),
     ret |-> dec.exc = "none", exc |-> dec.exc, accepted |-> TRUE,
     failed |-> dec.failed, t |-> t, uuid |-> uuid]
\* the same without a result of preprocessing to dispatch
add_subframe_none(h, t, uuid, exc) ==
    [h |-> h, ret |-> FALSE, exc |-> exc, accepted |-> FALSE, failed |-> "none",
     t |-> t, uuid |-> uuid]
\* the part of add_subframe after preprocess_ubx returned prep
add_subframe_prep(h, ubx_msg, prep, t) ==
    LET det == determine_nav_msg(prep.nav_msg_id, ubx_msg.svId)
    IN IF ubx_msg.identity # "RXM-SFRBX" THEN add_subframe_none(h, t, prep.uuid, "none")
       ELSE IF prep.exc # "none" THEN add_subframe_none(h, t, prep.uuid, prep.exc)
       ELSE IF ~prep.ok
       THEN add_subframe_none(Handle(h.raw_data, h.gnss_msgs, prep.helper), t, prep.uuid,
                              "none")
       ELSE IF t \in DOMAIN h.raw_data /\ t \notin DOMAIN h.gnss_msgs
       THEN add_subframe_none(
                Handle(RawPut(h.raw_data, t, prep.uuid, prep.raw), h.gnss_msgs, prep.helper),
                t, prep.uuid, "KeyError")
       ELSE IF t \in DOMAIN h.raw_data
       THEN add_subframe_decoded(
                Handle(RawPut(h.raw_data, t, prep.uuid, prep.raw), h.gnss_msgs, prep.helper),
                t, prep.uuid, decode_subframe(h.gnss_msgs[t], prep.uuid, prep.raw))
       ELSE IF det.exc # "none"
       THEN add_subframe_none(
                Handle(RawPut(h.raw_data, t, prep.uuid, prep.raw), h.gnss_msgs, prep.helper),
                t, prep.uuid, det.exc)
       ELSE add_subframe_decoded(
                Handle(RawPut(h.raw_data, t, prep.uuid, prep.raw), h.gnss_msgs, prep.helper),
                t, prep.uuid, decode_subframe(det.msg, prep.uuid, prep.raw))
add_subframe_triple(h, ubx_msg, prep) ==
    add_subframe_prep(h, ubx_msg, prep, <<ubx_msg.gnssId, ubx_msg.svId, prep.nav_msg_id>>)
add_subframe(h, ubx_msg) == add_subframe_triple(h, ubx_msg, preprocess_ubx(ubx_msg, h.helper))

(***************************************************************************)
(* Recorded input.  A block is <<kind, svId, x, c>>: x selects the frame   *)
(* (sub-frame/page, message type, word type, string), c its content.  The  *)
(* frames are encoded through the layouts and packed into data words the   *)
(* way the receiver delivers them.                                         *)
(***************************************************************************)
\* Content variants run over 0..MaxContent.
MaxContent == 1

ShiftLeft(bits, n) == {i + n : i \in bits}
\* the value v in the len_ bits from bit offset start of a ref_len bit frame
Put(v, start, len_, ref_len) ==
    {ref_len - (start + len_) + i : i \in {j \in ToBits(v) : j < len_}}
SetBits(frame, v, start, len_, ref_len) ==
    {i \in frame : i < ref_len - (start + len_) \/ i >= ref_len - start}
        \cup Put(v, start, len_, ref_len)
SetField(frame, layout, name, v, ref_len) ==
    LET it == layout[CHOOSE i \in 1..Len(layout) : layout[i].name = name].item
    IN SetBits(frame, v, it.start, it.len_, ref_len)
FieldValue(i, c, len_) == (i * (2 * c + 1) + c * Pow2(len_ - 1)) % Pow2(len_)
Fill(layout, c, ref_len) ==
    UNION {Put(FieldValue(i, c, layout[i].item.len_), layout[i].item.start,
               layout[i].item.len_, ref_len) : i \in 1..Len(layout)}

\* GPS L-NAV sub-frame x \div 100 carrying SV id x % 100 in word 3.
LNavFrame(x, c) ==
    LET sf_id == x \div 100
        id == LNav_get_uuid(SetBits(SetBits(Put(sf_id, 49, 3, 300), 1, 60, 2, 300),
                                    x % 100, 62, 6, 300))
        body == IF id.ok THEN Fill(LNav_uuid_to_payload(id.uuid).bp, c, 300) ELSE {}
        f1 == SetBits(SetBits(body, GpsPreamble, 0, 8, 300), sf_id, 49, 3, 300)
    IN IF sf_id \in {4, 5} THEN SetBits(SetBits(f1, 1, 60, 2, 300), x % 100, 62, 6, 300)
       ELSE f1
\* The head of a GPS L-NAV sub-frame: preamble, sub-frame id, and in word 3
\* the data id and the SV id (sub-frames 4 and 5).
LNavIdFrame(sf_id, data_id, sv_id) ==
    Put(GpsPreamble, 0, 8, 300) \cup Put(sf_id, 49, 3, 300)
        \cup Put(data_id, 60, 2, 300) \cup Put(sv_id, 62, 6, 300)
Words30(frame) == [k \in 1..10 |-> ShiftMaskBits(frame, 300 - 30 * k, 0, 30)]

\* GPS C-NAV message type x of PRN sv; both halves of the ephemeris carry
\* the t_oe of their content variant.
CNavFrame(sv, x, c) ==
    LET layout == Lookup(Payload_GPS_CNAV, <<"message", x>>)
        body == IF x \in {10, 11} THEN SetField(Fill(layout, c, 300), layout, N("t_oe"),
                                                100 + c, 300)
                ELSE Fill(layout, c, 300)
        f1 == SetBits(SetBits(SetBits(body, GpsPreamble, 0, 8, 300), sv, 8, 6, 300),
                      x, 14, 6, 300)
    IN IF x = 37 THEN SetBits(f1, 1 + c, 148, 6, 300) ELSE f1
WordsCNav(frame) == [k \in 1..10 |-> IF k < 10 THEN ShiftMaskBits(frame, 300 - 32 * k, 0, 32)
                                     ELSE ShiftMaskBits(frame, 0, 0, 12)]

\* Galileo I/NAV word of type x; the almanac words carry IODa 1 and the SV
\* ids 1, 2, 3 (+ 3c), words 1..4 the IODnav 5 + c of their content variant.
GalWord(x, c) ==
    LET layout == Gal_uuid_to_payload(x).bp
        f1 == SetBits(Fill(layout, c, 128), x, 0, 6, 128)
    IN CASE x \in 7..10 ->
              LET f2 == SetBits(f1, 1, 6, 4, 128)
              IN CASE x = 7 -> SetBits(f2, 1, 22, 6, 128)
                   [] x = 8 -> SetBits(f2, 2, 43, 6, 128)
                   [] x = 9 -> SetBits(f2, 3, 71, 6, 128)
                   [] OTHER -> f2
         [] x \in 1..4 -> SetBits(f1, 5 + c, 6, 10, 128)
         [] OTHER -> f1
\* even page in the first four words, odd page from the fifth on; the even/odd
\* bit (31) and the page type bit (30) of the two halves are given.
WordsGalFlags(word, n, odd_1, odd_2, p_t_1, p_t_2) ==
    [k \in 1..n |->
        CASE k = 1 -> ShiftMaskBits(word, 98, 0, 30) \cup (IF odd_1 = 1 THEN {31} ELSE {})
                      \cup (IF p_t_1 = 1 THEN {30} ELSE {})
          [] k = 2 -> ShiftMaskBits(word, 66, 0, 32)
          [] k = 3 -> ShiftMaskBits(word, 34, 0, 32)
          [] k = 4 -> ShiftLeft(ShiftMaskBits(word, 16, 0, 18), 14)
          [] k = 5 -> ShiftLeft(ShiftMaskBits(word, 0, 0, 16), 14)
                      \cup (IF odd_2 = 1 THEN {31} ELSE {})
                      \cup (IF p_t_2 = 1 THEN {30} ELSE {})
          [] OTHER -> {}]
\* a nominal even/odd pair; pt is the page type bit of both halves.
WordsGal(word, n, pt) == WordsGalFlags(word, n, 0, 1, pt, pt)

\* GLONASS string x % 100 of frame x \div 100 (0: frame number not delivered):
\* 85 bits in three words, left aligned, the fourth word deduced by the receiver.
GloString(x, c) ==
    LET layout == Lookup(Payload_GLO_NAV, <<"string", x % 100>>)
    IN SetBits(Fill(layout, c, 85), x % 100, 1, 4, 85)
WordsGlo(string, x) ==
    <<ShiftMaskBits(string, 53, 0, 32), ShiftMaskBits(string, 21, 0, 32),
      ShiftLeft(ShiftMaskBits(string, 0, 0, 21), 11),
      IF x \div 100 = 0 THEN {} ELSE ToBits(x \div 100) \cup {16}>>

\* BeiDou D1 sub-frame x \div 100, page x % 100; the base almanac pages carry
\* AmEpID (c + 2) % 4, pages 11..24 of sub-frame 5 carry AmID am.
BdsFrameAm(x, c, am) ==
    LET sf_id == x \div 100
        expanded == sf_id = 5 /\ (x % 100) \in 11..24
        am_start == IF x % 100 = 24 THEN 215 ELSE 290
        head == SetBits(Put(sf_id, 15, 3, 300), x % 100, 43, 7, 300)
        id == BdsD1_get_uuid(IF expanded THEN SetBits(head, am, am_start, 2, 300) ELSE head)
        layout == BdsD1_uuid_to_payload(id).bp
        body == Fill(layout, c, 300)
        f1 == SetBits(body, sf_id, 15, 3, 300)
        f2 == IF sf_id \in {4, 5} THEN SetBits(f1, x % 100, 43, 7, 300) ELSE f1
        f3 == IF expanded THEN SetBits(f2, am, am_start, 2, 300) ELSE f2
    IN IF \E i \in 1..Len(layout) : layout[i].name = N("amp_ep_id")
       THEN SetField(f3, layout, N("amp_ep_id"), (c + 2) % 4, 300) ELSE f3
BdsFrame(x, c) == BdsFrameAm(x, c, 1)

UbxMsg(identity, gnssId, svId, freqId, dwrds) ==
    [identity |-> identity, gnssId |-> gnssId, svId |-> svId, numWords |-> Len(dwrds),
     freqId |-> freqId, dwrds |-> dwrds]

BlockUbx(b) ==
    LET sv == b[2]
        x == b[3]
        c == b[4]
    IN CASE b[1] = "lnav" -> UbxMsg("RXM-SFRBX", UbxGps, sv, 0, Words30(LNavFrame(x, c)))
         [] b[1] = "lnavid" -> UbxMsg("RXM-SFRBX", UbxGps, sv, 0,
                                      Words30(LNavIdFrame(x \div 100, c, x % 100)))
         [] b[1] = "cnav" -> UbxMsg("RXM-SFRBX", UbxGps, sv, 0, WordsCNav(CNavFrame(sv, x, c)))
         [] b[1] = "gps9" -> UbxMsg("RXM-SFRBX", UbxGps, sv, 0,
                                    SubSeq(Words30(LNavFrame(x, c)), 1, 9))
         [] b[1] = "gal" -> UbxMsg("RXM-SFRBX", UbxGalileo, sv, 5, WordsGal(GalWord(x, c), 8, 0))
         [] b[1] = "gal9" -> UbxMsg("RXM-SFRBX", UbxGalileo, sv, 1, WordsGal(GalWord(x, c), 9, 0))
         [] b[1] = "galalert" -> UbxMsg("RXM-SFRBX", UbxGalileo, sv, 5,
                                        WordsGal(GalWord(x, c), 8, 1))
         [] b[1] = "galodd10" -> UbxMsg("RXM-SFRBX", UbxGalileo, sv, 5,
                                        WordsGalFlags(GalWord(x, c), 8, 1, 0, 0, 0))
         [] b[1] = "galodd11" -> UbxMsg("RXM-SFRBX", UbxGalileo, sv, 5,
                                        WordsGalFlags(GalWord(x, c), 8, 1, 1, 0, 0))
         [] b[1] = "galodd00" -> UbxMsg("RXM-SFRBX", UbxGalileo, sv, 5,
                                        WordsGalFlags(GalWord(x, c), 8, 0, 0, 0, 0))
         [] b[1] = "galalert1" -> UbxMsg("RXM-SFRBX", UbxGalileo, sv, 5,
                                         WordsGalFlags(GalWord(x, c), 8, 0, 1, 1, 0))
         [] b[1] = "galalert2" -> UbxMsg("RXM-SFRBX", UbxGalileo, sv, 5,
                                         WordsGalFlags(GalWord(x, c), 8, 0, 1, 0, 1))
         [] b[1] = "glo" -> UbxMsg("RXM-SFRBX", UbxGlonass, sv, 0, WordsGlo(GloString(x, c), x))
         [] b[1] = "bds" -> UbxMsg("RXM-SFRBX", UbxBeiDou, sv, 0, Words30(BdsFrame(x, c)))
         [] b[1] = "bdsam3" -> UbxMsg("RXM-SFRBX", UbxBeiDou, sv, 0,
                                      Words30(BdsFrameAm(x, c, 3)))
         [] b[1] = "sbas" -> UbxMsg("RXM-SFRBX", UbxSbas, sv, 0, Words30(LNavFrame(x, c)))
         [] OTHER -> UbxMsg("RXM-RAWX", UbxGps, sv, 0, Words30(LNavFrame(x, c)))

Contents == 0..MaxContent

\* The recordings, one per receiver log: the blocks a log delivers.
RecLNavEph == {<<"lnav", 1, 100, 0>>, <<"lnav", 1, 300, 0>>}
              \cup {<<"lnav", 1, 200, c>> : c \in Contents}
RecLNavAlm == {<<"lnav", 1, 502, 0>>} \cup {<<"lnav", 1, 501, c>> : c \in Contents}
RecCNav == {<<"cnav", 3, 10, 0>>, <<"cnav", 3, 34, 0>>}
           \cup {<<"cnav", 3, 11, c>> : c \in Contents}
\* midi almanacs (message type 37) of the almanac PRNs 1 + c
RecCNavMidi == {<<"cnav", 3, 10, 0>>} \cup {<<"cnav", 3, 37, c>> : c \in Contents}
RecGalEph == {<<"gal", 4, 1, 0>>, <<"gal", 4, 2, 0>>, <<"gal", 4, 3, 0>>}
             \cup {<<"gal", 4, 4, c>> : c \in Contents}
RecGalAlm == {<<"gal", 4, 7, 0>>, <<"gal", 4, 8, 0>>, <<"gal", 4, 9, 0>>, <<"gal", 4, 10, 0>>}
\* nominal pages among pages with wrong even/odd bits or the alert bit set
RecGalBad == {<<"gal", 4, 7, 0>>, <<"gal", 4, 1, 0>>, <<"galodd10", 4, 8, 0>>,
              <<"galodd11", 4, 2, 0>>, <<"galodd00", 4, 7, 0>>, <<"galalert1", 4, 8, 0>>,
              <<"galalert2", 4, 1, 0>>, <<"galalert", 4, 7, 0>>}
RecGloEph == {<<"glo", 2, 1, 0>>, <<"glo", 2, 2, 0>>, <<"glo", 2, 3, 0>>, <<"glo", 2, 4, 0>>}
RecGloAlm == {<<"glo", 2, 106, 0>>, <<"glo", 2, 107, 0>>, <<"glo", 255, 1, 0>>}
\* almanac strings of one and of two digits, with and without a frame number
RecGloFrames == {<<"glo", 2, 5, 0>>, <<"glo", 2, 6, 0>>, <<"glo", 2, 12, 0>>,
                 <<"glo", 2, 109, 0>>}
RecGloFramesHigh == {<<"glo", 2, 301, 0>>, <<"glo", 2, 110, 0>>, <<"glo", 2, 515, 0>>}
RecBdsEph == {<<"bds", 6, 100, 0>>, <<"bds", 6, 200, 0>>}
             \cup {<<"bds", 6, 300, c>> : c \in Contents}
RecBdsAlm == {<<"bds", 6, 507, 0>>, <<"bds", 64, 100, 0>>}
             \cup {<<"bds", 6, 401, c>> : c \in Contents}
\* a base almanac slot, the health page of it, an expanded slot and its health
RecBdsExt == {<<"bds", 6, 401, 1>>, <<"bds", 6, 507, 0>>, <<"bds", 6, 511, 0>>,
              <<"bds", 6, 524, 0>>}
\* a base slot with AmEpID 3 and its health page, and the pages 18 and 24, or
\* the page 17, of sub-frame 5 with AmID 3
RecBdsAm3 == {<<"bds", 6, 401, 1>>, <<"bds", 6, 507, 0>>, <<"bdsam3", 6, 518, 0>>,
              <<"bdsam3", 6, 524, 0>>}
RecBdsAm3Page17 == {<<"bds", 6, 401, 1>>, <<"bds", 6, 507, 0>>, <<"bdsam3", 6, 517, 0>>}
\* every page of the sub-frames 4 and 5, one page to a log
BdsPageBlocks ==
    {<<"bds", 6, sf_id * 100 + page_num, 0>> : sf_id \in {4, 5}, page_num \in 1..24}
RecBdsGeo == {<<"bds", 1, 100, c>> : c \in Contents} \cup {<<"gal9", 4, 7, 0>>}
RecReject == {<<"lnav", 1, 0, 0>>, <<"lnav", 1, 457, 0>>, <<"lnav", 2, 200, 0>>,
              <<"cnav", 3, 0, 0>>, <<"cnav", 3, 36, 0>>, <<"gps9", 1, 100, 0>>,
              <<"sbas", 1, 100, 0>>, <<"rawx", 1, 100, 0>>, <<"galalert", 4, 1, 0>>,
              <<"gal", 4, 63, 0>>}
\* every head of an L-NAV sub-frame: sub-frame id, SV id, data id
LNavIdBlocks ==
    {<<"lnavid", 1, sf_id * 100 + sv_id, data_id>> :
        sf_id \in 0..7, sv_id \in 0..63, data_id \in 0..3}
Recordings == {RecLNavEph, RecLNavAlm, RecCNav, RecCNavMidi, RecGalEph, RecGalAlm, RecGalBad,
               RecGloEph, RecGloAlm, RecGloFrames, RecGloFramesHigh,
               RecBdsEph, RecBdsAlm, RecBdsExt, RecBdsAm3, RecBdsAm3Page17, RecBdsGeo,
               RecReject}
              \cup {{b} : b \in LNavIdBlocks} \cup {{b} : b \in BdsPageBlocks}

\* Sets of sub-frames of one satellite that suffice for an ephemeris, with
\* and without a second sub-frame of an uuid already in the set.
PermBase(kind, sv, xs, c) == {<<kind, sv, x, c>> : x \in xs}
PermFamily(kind, sv, xs, x0) ==
    {PermBase(kind, sv, xs, c) \cup extra :
        c \in Contents, extra \in {{}} \cup {{<<kind, sv, x0, c2>>} : c2 \in Contents}}
PermRecordings ==
    PermFamily("lnav", 1, {100, 200, 300}, 200) \cup PermFamily("cnav", 3, {10, 11}, 10)
    \cup PermFamily("gal", 4, {1, 2, 3, 4}, 4) \cup PermFamily("glo", 2, {1, 2, 3, 4}, 4)
    \cup PermFamily("bds", 6, {100, 200, 300}, 300)

\* Frames handed directly to one accumulator, and the uuids they are handed
\* with: the one the dispatcher derives and uuids no layout exists for.
MsgRecordings ==
    {PermBase("lnav", 1, {100, 200, 501}, 0), PermBase("cnav", 3, {10, 34}, 0),
     PermBase("gal", 4, {1, 2}, 0), PermBase("glo", 2, {1, 106}, 0),
     PermBase("bds", 6, {100, 401}, 0), PermBase("bds", 1, {100}, 0)}
ForeignUuids == {0, 7, 99}

AllBlocks == UNION (Recordings \cup PermRecordings \cup MsgRecordings)
\* The UBX message of every block, as an explicit table.
Ubx == [b \in AllBlocks |-> BlockUbx(b)] @@ EmptyMap

(***************************************************************************)
(* The state machine.  record is the recording being replayed, pending the *)
(* blocks of it still to be ingested when every block is ingested once.    *)
(* raw_data, gnss_msgs and static_galileo_alm_helper are the attributes of *)
(* the UbxNavMessageParserHandle; last describes the operation that led to *)
(* the state.                                                              *)
(***************************************************************************)
VARIABLES record, pending, raw_data, gnss_msgs, static_galileo_alm_helper, last
vars == <<record, pending, raw_data, gnss_msgs, static_galileo_alm_helper, last>>

NoBlock == <<"none", 0, 0, 0>>
NoTriple == <<-1, -1, -1>>
\* op: the operation; block/t/uuid: its input; ret: the returned bool (for a
\* read: something other than None/{} came back); exc: the exception that
\* left it; accepted: preprocessing passed; failed: the exception add_frame
\* left with; again: the block is the one of the preceding operation;
\* changed: a key already in the field map got a different value.
Last(op, block, t, uuid, ret, exc, accepted, failed, again, changed) ==
    [op |-> op, block |-> block, t |-> t, uuid |-> uuid, ret |-> ret, exc |-> exc,
     accepted |-> accepted, failed |-> failed, again |-> again, changed |-> changed,
     snapshot |-> EmptyMap]
InitLast == Last("init", NoBlock, NoTriple, -1, FALSE, "none", FALSE, "none", FALSE, FALSE)

handle == Handle(raw_data, gnss_msgs, static_galileo_alm_helper)
FieldMap(h, t) == IF t \in DOMAIN h.gnss_msgs THEN h.gnss_msgs[t].data ELSE EmptyDict
Overwrites(old, new) == \E k \in DOMAIN old : k \in DOMAIN new /\ old[k] # new[k]

\* __init__ of the handle, before a recording is replayed.
Init ==
    /\ record \in Recordings
    /\ pending = {}
    /\ raw_data = NewHandle.raw_data
    /\ gnss_msgs = NewHandle.gnss_msgs
    /\ static_galileo_alm_helper = NewHandle.helper
    /\ last = InitLast

Ingest(b) ==
    \E r \in {add_subframe(handle, Ubx[b])} :
       /\ raw_data' = r.h.raw_data
       /\ gnss_msgs' = r.h.gnss_msgs
       /\ static_galileo_alm_helper' = r.h.helper
       /\ last' = Last("add_subframe", b, IF r.accepted THEN r.t ELSE NoTriple,
                       IF r.accepted THEN r.uuid ELSE -1, r.ret, r.exc,
                       r.accepted, r.failed, last.op = "add_subframe" /\ last.block = b,
                       r.accepted /\ Overwrites(FieldMap(handle, r.t), FieldMap(r.h, r.t)))
       /\ UNCHANGED record

\* handle.add_subframe(ubx_msg) for a block of the recording
AddSubframe(b) ==
    /\ b \in record
    /\ Ingest(b)
    /\ UNCHANGED pending

\* handle.gnss_msgs[gnss_id][sv_id][nav_msg_id].ephemeris
ReadEphemeris(t) ==
    /\ t \in DOMAIN gnss_msgs
    /\ pending = {}
    /\ \E e \in {ephemeris(gnss_msgs[t].cls, gnss_msgs[t].svid, gnss_msgs[t].data,
                            gnss_msgs[t].eph)} :
          /\ gnss_msgs' = [gnss_msgs EXCEPT ![t].eph = e.eph]
          /\ last' = Last("ephemeris", NoBlock, t, -1, e.eph # {}, e.exc, FALSE, "none",
                          FALSE, FALSE)
    /\ UNCHANGED <<record, pending, raw_data, static_galileo_alm_helper>>

\* handle.gnss_msgs[gnss_id][sv_id][nav_msg_id].almanac
ReadAlmanac(t) ==
    /\ t \in DOMAIN gnss_msgs
    /\ pending = {}
    /\ \E a \in {almanac(gnss_msgs[t].cls, gnss_msgs[t].data, gnss_msgs[t].order,
                          gnss_msgs[t].alm)} :
          /\ gnss_msgs' = [gnss_msgs EXCEPT ![t].alm = a.alm]
          /\ last' = Last("almanac", NoBlock, t, -1, DOMAIN a.alm # {}, a.exc, FALSE, "none",
                          FALSE, FALSE)
    /\ UNCHANGED <<record, pending, raw_data, static_galileo_alm_helper>>

\* handle.decode_nav_msgs(): every triple of _raw_data is decoded anew; the
\* returned dict is kept in last.snapshot.
DecodeNavMsgs ==
    /\ last' = [Last("decode_nav_msgs", NoBlock, NoTriple, -1, TRUE, "none", FALSE, "none",
                     FALSE, FALSE)
                   EXCEPT !.snapshot = [t \in DOMAIN raw_data |->
                                           decode_nav_msg(t[3], t[2], raw_data[t])]]
    /\ UNCHANGED <<record, pending, raw_data, gnss_msgs, static_galileo_alm_helper>>

Next ==
    \/ \E b \in record : AddSubframe(b)
    \/ \E t \in DOMAIN gnss_msgs : ReadEphemeris(t)
    \/ \E t \in DOMAIN gnss_msgs : ReadAlmanac(t)
    \/ DecodeNavMsgs

Spec == Init /\ [][Next]_vars

(***************************************************************************)
(* Every block of a sufficient set ingested exactly once, in any order,    *)
(* then the ephemeris read.                                                *)
(***************************************************************************)
InitPerm ==
    /\ record \in PermRecordings
    /\ pending = record
    /\ raw_data = NewHandle.raw_data
    /\ gnss_msgs = NewHandle.gnss_msgs
    /\ static_galileo_alm_helper = NewHandle.helper
    /\ last = InitLast

IngestOnce(b) ==
    /\ b \in pending
    /\ Ingest(b)
    /\ pending' = pending \ {b}

NextPerm ==
    \/ \E b \in pending : IngestOnce(b)
    \/ \E t \in DOMAIN gnss_msgs : ReadEphemeris(t)

SpecPerm == InitPerm /\ [][NextPerm]_vars

(***************************************************************************)
(* One accumulator driven directly: add_frame with the uuid of the caller's *)
(* choice, and the two reads.                                              *)
(***************************************************************************)
MsgTriple(S) == add_subframe(NewHandle, Ubx[CHOOSE b \in S : TRUE]).t

InitMsg ==
    /\ record \in MsgRecordings
    /\ pending = {}
    /\ raw_data = NewHandle.raw_data
    /\ \E t \in {MsgTriple(record)} :
          gnss_msgs = DictPut(EmptyMap, t, determine_nav_msg(t[3], t[2]).msg)
    /\ static_galileo_alm_helper = NewHandle.helper
    /\ last = InitLast

CallerUuids(b) == {preprocess_ubx(Ubx[b], NewHandle.helper).uuid} \cup ForeignUuids

\* gnss_nav_msg.add_frame(uuid=uuid, payload=payload), payload lifted from b
AddFrame(t, b, uuid) ==
    /\ t \in DOMAIN gnss_msgs
    /\ b \in record
    /\ \E r \in {msg_add_frame(gnss_msgs[t], uuid,
                                preprocess_ubx(Ubx[b], static_galileo_alm_helper).raw)} :
          /\ gnss_msgs' = [gnss_msgs EXCEPT ![t] = r.msg]
          /\ last' = Last("add_frame", b, t, uuid, r.ret, r.exc, TRUE, r.exc,
                          last.op = "add_frame" /\ last.block = b /\ last.uuid = uuid,
                          Overwrites(gnss_msgs[t].data, r.msg.data))
    /\ UNCHANGED <<record, pending, raw_data, static_galileo_alm_helper>>

NextMsg ==
    \/ \E t \in DOMAIN gnss_msgs, b \in record :
          \E uuid \in CallerUuids(b) : AddFrame(t, b, uuid)
    \/ \E t \in DOMAIN gnss_msgs : ReadEphemeris(t)
    \/ \E t \in DOMAIN gnss_msgs : ReadAlmanac(t)

SpecMsg == InitMsg /\ [][NextMsg]_vars

(***************************************************************************)
(* The bit primitives and the msb/lsb recombination applied to inputs of   *)
(* bounded width.  last holds the input (a length-bit value with a sign    *)
(* rule and a scale; for a field pair the msb half, and the lsb half in    *)
(* lsb_len and lsb_value) and, after the operation, its result.            *)
(***************************************************************************)
\* Widths 1..MaxWidth are run through with every value.
MaxWidth == 6
\* Field pairs have halves of 1..MaxHalf bits.
MaxHalf == 2

BitInput(length, value, lsb_len, lsb_value, sign, scale) ==
    [op |-> "input", length |-> length, value |-> value, lsb_len |-> lsb_len,
     lsb_value |-> lsb_value, sign |-> sign, scale |-> scale, result |-> Num(0, NoScale)]
SignRules == {"u", "tc", "sb"}
\* single fields: every value of the small widths, and 16-bit samples
ValueInputs ==
    {BitInput(w, v, 0, 0, s, NoScale) : w \in 1..MaxWidth, v \in 0..(Pow2(MaxWidth) - 1),
                                         s \in SignRules}
    \cup {BitInput(16, v, 0, 0, s, NoScale) : v \in {1, 32767, 32768, 32769, 65535},
                                              s \in SignRules}
\* field pairs: every value of the small halves, and an 8 + 14 bit sample
PairInputs ==
    {BitInput(ml, mv, ll, lv, s, sc) :
        ml \in 1..MaxHalf, mv \in 0..(Pow2(MaxHalf) - 1),
        ll \in 1..MaxHalf, lv \in 0..(Pow2(MaxHalf) - 1),
        s \in SignRules, sc \in {NoScale, -3}}
    \cup {BitInput(8, mv, 14, 3, s, -31) : mv \in {2, 130}, s \in SignRules}
BitInputs ==
    {i \in ValueInputs \cup PairInputs :
        i.value < Pow2(i.length) /\ i.lsb_value < Pow2(i.lsb_len)}

InitBits ==
    /\ record = {}
    /\ pending = {}
    /\ raw_data = NewHandle.raw_data
    /\ gnss_msgs = NewHandle.gnss_msgs
    /\ static_galileo_alm_helper = NewHandle.helper
    /\ last \in BitInputs

Applied(op, result) ==
    /\ last' = [last EXCEPT !.op = op, !.result = result]
    /\ UNCHANGED <<record, pending, raw_data, gnss_msgs, static_galileo_alm_helper>>

\* uint_to_signed_bin(value, length)
SignedBin ==
    /\ last.op = "input" /\ last.lsb_len = 0 /\ last.sign = "sb"
    /\ Applied("uint_to_signed_bin", Num(uint_to_signed_bin(last.value, last.length), NoScale))

\* uint_to_two_compl(value, length)
TwoCompl ==
    /\ last.op = "input" /\ last.lsb_len = 0 /\ last.sign = "tc"
    /\ Applied("uint_to_two_compl", Num(uint_to_two_compl(last.value, last.length), NoScale))

\* decode_msg_item on a frame that consists of the field
DecodeField ==
    /\ last.op = "input" /\ last.lsb_len = 0
    /\ Applied("decode_msg_item",
               decode_msg_item(ToBits(last.value),
                               MsgItem(0, last.length, last.sign = "tc", last.sign = "sb",
                                       last.scale),
                               last.length))

\* The layout of a field pair f_msb / f_lsb at the head of a frame, and the
\* frame that carries the two halves.
PairLayout(i) ==
    Lay(0, << <<Msb("f"), i.length, i.sign, i.scale>>, <<Lsb("f"), i.lsb_len, "u", NoScale>> >>)
PairFrame(i, ref_len) ==
    Put(i.value, 0, i.length, ref_len) \cup Put(i.lsb_value, i.length, i.lsb_len, ref_len)
\* _decode_items and _post_process_items of an L-NAV message on the pair
PostProcessed(i) ==
    post_process_items(GPS_LNAV,
                       decode_items(GPS_LNAV, PairLayout(i), PairFrame(i, len_frame(GPS_LNAV))))
RecombinePair ==
    /\ last.op = "input" /\ last.lsb_len > 0
    /\ \E pp \in {PostProcessed(last)} :
          /\ pp.ok /\ N("f") \in DOMAIN pp.d
          /\ Applied("post_process_items", pp.d[N("f")])

NextBits ==
    \/ SignedBin
    \/ TwoCompl
    \/ DecodeField
    \/ RecombinePair

SpecBits == InitBits /\ [][NextBits]_vars

(***************************************************************************)
(* Properties.                                                             *)
(***************************************************************************)
\* The payload of block b as add_frame receives it.
Payload(b) == preprocess_ubx(Ubx[b], static_galileo_alm_helper).raw
\* What add_frame makes of a frame on an empty field map.
Alone(cls, uuid, payload) == add_frame(cls, EmptyDict, uuid, payload)
\* The field maps of every stored message.
FieldMaps(h) == [t \in DOMAIN h.gnss_msgs |-> h.gnss_msgs[t].data]
\* Some ephemeris key of the class is not in the field map.
KeyMissing(cls, data) ==
    \/ Missing(data, EphemerisSpec(cls)) # {}
    \/ cls = GPS_CNAV /\ Key(11, "t_oe") \notin DOMAIN data

\* C1: an add_frame call that fails, or finds no layout, returns or raises
\* with the field map exactly as it was before the call, whatever frames
\* were added before.
C1_FailedFrameLeavesMap ==
    \A t \in DOMAIN gnss_msgs : \A b \in record : \A uuid \in CallerUuids(b) :
        \E r \in {msg_add_frame(gnss_msgs[t], uuid, Payload(b))} :
            ~r.ret => r.msg.data = gnss_msgs[t].data
\* a frame failed in post-processing on a field map that holds earlier frames
C1_Witness ==
    /\ last.op = "add_frame" /\ last.exc = "NavMsgError"
    /\ gnss_msgs[last.t].data # EmptyDict

\* C2: add_frame with a uuid no layout exists for completes without raising
\* and changes no key of the field map, for every message type.
C2_UnknownUuidIsNoOp ==
    (last.op = "add_frame" /\ uuid_to_payload(gnss_msgs[last.t].cls, last.uuid).bp = <<>>)
        => (last.exc = "none" /\ ~last.ret /\ ~last.changed)

\* C3: a read of the ephemeris returns the record the builder yields from
\* the field map as it is at the read.
C3_EphemerisIsCurrent ==
    last.op = "ephemeris" =>
        \E m \in {gnss_msgs[last.t]} :
            m.eph = build_ephemeris(m.cls, m.svid, m.data, {}).eph

\* C4: a read of the almanac holds every slot the builder yields from the
\* field map as it is at the read.
C4_AlmanacIsCurrent ==
    (last.op = "almanac" /\ last.exc = "none") =>
        \E m \in {gnss_msgs[last.t]} :
            DOMAIN build_almanac(m.cls, m.data, m.order, EmptyAlmanac).alm \subseteq DOMAIN m.alm

\* C5: while a required ephemeris key is missing from the field map no
\* record is stored, and a read returns None without raising.
C5_NoEphemerisWhileKeyMissing ==
    \A t \in DOMAIN gnss_msgs : \E m \in {gnss_msgs[t]} :
        KeyMissing(m.cls, m.data) =>
            /\ m.eph = {}
            /\ \E r \in {ephemeris(m.cls, m.svid, m.data, m.eph)} : r.eph = {} /\ r.exc = "none"
\* the ephemeris was read from a field map that holds frames but not all keys
C5_Witness ==
    /\ last.op = "ephemeris" /\ ~last.ret /\ last.exc = "none"
    /\ gnss_msgs[last.t].data # EmptyDict
    /\ KeyMissing(gnss_msgs[last.t].cls, gnss_msgs[last.t].data)

\* C6: from every reachable state of the handle, add_subframe on a block
\* twice in succession leaves the field maps of every triple as add_subframe
\* on the block once.
C6_IngestTwiceIsIngestOnce ==
    \A b \in record :
        \E once \in {add_subframe(handle, Ubx[b]).h} :
            FieldMaps(add_subframe(once, Ubx[b]).h) = FieldMaps(once)
\* a block that decodes was ingested twice in succession
C6_Witness ==
    /\ last.op = "add_subframe" /\ last.again /\ last.ret /\ last.failed = "none"
    /\ gnss_msgs[last.t].data # EmptyDict

\* The handle after add_subframe on every block of S in one fixed order.
RECURSIVE Replay(_, _)
Replay(h, S) ==
    IF S = {} THEN h
    ELSE Replay(add_subframe(h, Ubx[CHOOSE b \in S : TRUE]).h, S \ {CHOOSE b \in S : TRUE})
\* The ephemeris the builder yields for triple t after Replay.
ReplayedEphemeris(h, t) ==
    build_ephemeris(h.gnss_msgs[t].cls, h.gnss_msgs[t].svid, h.gnss_msgs[t].data, {}).eph
\* No two blocks of S are sub-frames with the same uuid.
DistinctUuids(S) ==
    \A b1 \in S : \A b2 \in S \ {b1} :
        preprocess_ubx(Ubx[b1], EmptyMap).uuid # preprocess_ubx(Ubx[b2], EmptyMap).uuid

\* C7 (as stated): whatever the order in which the sub-frames of a
\* sufficient set were ingested, the ephemeris read afterwards is the one of
\* the fixed order.
C7_AnyOrderSameEphemeris ==
    (pending = {} /\ last.op = "ephemeris") =>
        gnss_msgs[last.t].eph = ReplayedEphemeris(Replay(NewHandle, record), last.t)
\* C7 (amended): the same for a sufficient set no two sub-frames of which
\* carry the same uuid.
C7_AnyOrderSameEphemerisDistinctUuids ==
    (pending = {} /\ last.op = "ephemeris" /\ DistinctUuids(record)) =>
        gnss_msgs[last.t].eph = ReplayedEphemeris(Replay(NewHandle, record), last.t)
\* every sub-frame of a set with distinct uuids is in and the ephemeris was read
C7_Witness ==
    /\ pending = {} /\ last.op = "ephemeris" /\ last.ret
    /\ DistinctUuids(record) /\ Cardinality(record) >= 2

\* C8: an accepted add_subframe leaves the fields of the other triples and
\* of the other uuids of its triple as they were, and every key of its uuid
\* holds the value of this frame, whatever an earlier frame of the uuid put
\* there.
C8_LastFrameWins ==
    [][(last'.op = "add_subframe" /\ last'.accepted) =>
          /\ \A t \in DOMAIN gnss_msgs \ {last'.t} : gnss_msgs'[t].data = gnss_msgs[t].data
          /\ \A k \in DOMAIN FieldMap(handle, last'.t) :
                k[1] # last'.uuid =>
                    /\ k \in DOMAIN gnss_msgs'[last'.t].data
                    /\ gnss_msgs'[last'.t].data[k] = gnss_msgs[last'.t].data[k]
          /\ \E r \in {Alone(gnss_msgs'[last'.t].cls, last'.uuid,
                             RawGet(raw_data'[last'.t], last'.uuid))} :
                r.ret => \A k \in DOMAIN r.data :
                            /\ k \in DOMAIN gnss_msgs'[last'.t].data
                            /\ gnss_msgs'[last'.t].data[k] = r.data[k]]_vars
\* a frame replaced values of an earlier frame of its uuid while the field
\* map holds keys of another uuid
C8_Witness ==
    /\ last.op = "add_subframe" /\ last.changed /\ last.ret
    /\ \E k \in DOMAIN gnss_msgs[last.t].data : k[1] # last.uuid

\* C9: no operation on the handle raises: add_subframe on any block, and the
\* reads of ephemeris and almanac of every stored message; and a frame that
\* is accepted and decodes is merged, whatever was ingested before.
C9_NeverStuck ==
    /\ last.exc = "none"
    /\ \A t \in DOMAIN gnss_msgs : \E m \in {gnss_msgs[t]} :
          /\ ephemeris(m.cls, m.svid, m.data, m.eph).exc = "none"
          /\ almanac(m.cls, m.data, m.order, m.alm).exc = "none"
    /\ \A b \in record : \E r \in {add_subframe(handle, Ubx[b])} :
          /\ r.exc = "none"
          /\ r.accepted =>
                \E a \in {Alone(r.h.gnss_msgs[r.t].cls, r.uuid,
                                 RawGet(r.h.raw_data[r.t], r.uuid))} :
                    a.ret => /\ r.ret
                             /\ \A k \in DOMAIN a.data :
                                   /\ k \in DOMAIN r.h.gnss_msgs[r.t].data
                                   /\ r.h.gnss_msgs[r.t].data[k] = a.data[k]
\* a frame was merged into a message that a failing frame went to before
C9_Witness ==
    /\ last.op = "add_subframe" /\ last.ret /\ last.failed = "none"
    /\ \E k \in DOMAIN gnss_msgs[last.t].data : k[1] = last.uuid
    /\ \E u \in RawUuids(raw_data[last.t]) :
          Alone(gnss_msgs[last.t].cls, u, RawGet(raw_data[last.t], u)).exc # "none"

\* C10: add_subframe does not return True for a sub-frame whose decoding
\* failed inside the accumulator.
C10_FailureIsSurfaced ==
    (last.op = "add_subframe" /\ last.failed # "none") => ~last.ret

\* Messages 10 and 11 of a C-NAV accumulator are both in and their t_oe differ.
ToeMismatch(m) ==
    /\ m.cls = GPS_CNAV
    /\ Key(10, "t_oe") \in DOMAIN m.data /\ Key(11, "t_oe") \in DOMAIN m.data
    /\ m.data[Key(10, "t_oe")] # m.data[Key(11, "t_oe")]

\* C11: a read of the ephemeris of a C-NAV message whose messages 10 and 11
\* carry different t_oe raises to the reader and no ephemeris is stored.
C11_ToeMismatchReachesReader ==
    (last.op = "ephemeris" /\ ToeMismatch(gnss_msgs[last.t])) =>
        (last.exc # "none" /\ gnss_msgs[last.t].eph = {})

\* C12: add_subframe on a BeiDou block of a GEO satellite (D2) returns False
\* and leaves neither a raw-data entry nor a message object for the satellite.
C12_GeoFrameIsUnsupported ==
    (last.op = "add_subframe" /\ last.block[1] = "bds" /\ last.block[2] \in BdsD2_SV_IDs) =>
        /\ ~last.ret
        /\ \A t \in DOMAIN raw_data \cup DOMAIN gnss_msgs :
              ~(t[1] = UbxBeiDou /\ t[2] = last.block[2])

\* The accumulated sibling frames of an ephemeris carry different issues of
\* data: L-NAV sub-frames 2 and 3 (IODE), Galileo words 1..4 (IODnav).
IodMismatch(m) ==
    \/ /\ m.cls = GPS_LNAV
       /\ Key(50, "iode") \in DOMAIN m.data /\ Key(75, "iode") \in DOMAIN m.data
       /\ m.data[Key(50, "iode")] # m.data[Key(75, "iode")]
    \/ /\ m.cls = GAL_INAV
       /\ \E w1 \in 1..4 : \E w2 \in 1..4 :
             /\ Key(w1, "iod_nav") \in DOMAIN m.data /\ Key(w2, "iod_nav") \in DOMAIN m.data
             /\ m.data[Key(w1, "iod_nav")] # m.data[Key(w2, "iod_nav")]

\* C13: a read of the ephemeris of a message whose sibling frames carry
\* different issues of data produces no record.
C13_NoEphemerisAcrossIods ==
    (last.op = "ephemeris" /\ IodMismatch(gnss_msgs[last.t])) => gnss_msgs[last.t].eph = {}
\* The same for the Galileo accumulator alone.
C13_GalNoEphemerisAcrossIods ==
    (last.op = "ephemeris" /\ gnss_msgs[last.t].cls = GAL_INAV
        /\ IodMismatch(gnss_msgs[last.t])) => gnss_msgs[last.t].eph = {}

\* The base almanac slots (PRN 1..30) received with their health, and the
\* expanded slots <<page, AmID>> received with theirs and all their fields.
BdsBaseReceived(data) ==
    {prn \in 1..30 : /\ Key(96 + prn, "amp_ep_id") \in DOMAIN data
                     /\ BdsBaseHealthKey(prn) \in DOMAIN data}
BdsExtPrn(sl) == 20 + sl[1] + 13 * (sl[2] - 1)
BdsExtReceived(data) ==
    {sl \in (11..23) \X (1..3) :
        /\ ~(sl[2] = 3 /\ sl[1] > 18)
        /\ Missing(data, BdsAlmanacSpec(BdsExtUuid(sl[1], sl[2]), BdsExtPrn(sl),
                                        BdsExtHealthKey(sl[1], sl[2]))) = {}}

\* C14: the almanac a BeiDou D1 message returns holds no PRN of 31..63 while
\* some received base slot reports an AmEpID other than 3, and holds every
\* received expanded almanac while base slots are received and all report 3.
C14_ExpandedAlmanacFollowsAmEpId ==
    (last.op = "almanac" /\ gnss_msgs[last.t].cls = BEID_D1) =>
        \E m \in {gnss_msgs[last.t]} :
            /\ (\E prn \in BdsBaseReceived(m.data) :
                    m.data[Key(96 + prn, "amp_ep_id")].m # BdsD1_AmpEpId)
                  => \A p \in DOMAIN m.alm : p \notin 31..63
            /\ (/\ BdsBaseReceived(m.data) # {}
                /\ \A prn \in BdsBaseReceived(m.data) :
                      m.data[Key(96 + prn, "amp_ep_id")].m = BdsD1_AmpEpId)
                  => \A sl \in BdsExtReceived(m.data) : BdsExtPrn(sl) \in DOMAIN m.alm

\* Block b is a Galileo page whose first half is marked odd or whose second
\* half is marked even, or with the page-type (alert) bit set on a half.
GalMalformed(b) ==
    /\ Ubx[b].gnssId = UbxGalileo /\ Len(Ubx[b].dwrds) >= 5
    /\ \/ 31 \in Ubx[b].dwrds[1] \/ 31 \notin Ubx[b].dwrds[5]
       \/ 30 \in Ubx[b].dwrds[1] \/ 30 \in Ubx[b].dwrds[5]

\* C15: add_subframe on a Galileo page with wrong even/odd bits or with the
\* alert bit set returns False and leaves the stored payloads, the
\* accumulators and the almanac-satellite helper as they were.
C15_MalformedGalPageRejected ==
    [][(last'.op = "add_subframe" /\ GalMalformed(last'.block)) =>
          /\ ~last'.ret /\ ~last'.accepted
          /\ raw_data' = raw_data /\ gnss_msgs' = gnss_msgs
          /\ static_galileo_alm_helper' = static_galileo_alm_helper]_vars

\* C16: add_subframe on a GPS C-NAV message of type 0 or of type 36 (text)
\* returns False and stores neither a payload nor a message for the satellite.
C16_CNavTextAndDefaultRejected ==
    [][(last'.op = "add_subframe" /\ last'.block[1] = "cnav" /\ last'.block[3] \in {0, 36}) =>
          /\ ~last'.ret /\ ~last'.accepted
          /\ raw_data' = raw_data /\ gnss_msgs' = gnss_msgs]_vars


\* C17: uint_to_signed_bin returns the magnitude held in the low width - 1
\* bits of the value with the sign of the top bit: negative when the top bit
\* is 0, positive when it is 1, for every width and every value of that width.
SignedMagnitude(value, length) ==
    (value % Pow2(length - 1))
        * (IF (value \div Pow2(length - 1)) % 2 = 0 THEN -1 ELSE 1)
C17_SignFollowsTopBit ==
    (last.op = "uint_to_signed_bin" \/ (last.op = "decode_msg_item" /\ last.sign = "sb"))
        => last.result = Num(SignedMagnitude(last.value, last.length), NoScale)

\* C18: for the 16-bit raw value 0x8001 the signed-magnitude rule yields -1
\* and the two's-complement rule yields -32767, through the primitives and
\* through decode_msg_item alike.
C18_SignRulesOn0x8001 ==
    (last.length = 16 /\ last.value = 32769 /\ last.lsb_len = 0) =>
        /\ (last.op = "uint_to_signed_bin" \/ (last.op = "decode_msg_item" /\ last.sign = "sb"))
              => last.result = Num(-1, NoScale)
        /\ (last.op = "uint_to_two_compl" \/ (last.op = "decode_msg_item" /\ last.sign = "tc"))
              => last.result = Num(-32767, NoScale)
C18_Witness ==
    /\ last.length = 16 /\ last.value = 32769 /\ last.op = "decode_msg_item"
    /\ last.sign = "tc" /\ last.result = Num(-32767, NoScale)

\* The bit concatenation of the two halves of a field pair, decoded as one
\* field of the combined width with the sign rule and the scale of the msb
\* descriptor.
PairDecoded(i) ==
    decode_msg_item(ToBits(i.value * Pow2(i.lsb_len) + i.lsb_value),
                    MsgItem(0, i.length + i.lsb_len, i.sign = "tc", i.sign = "sb", i.scale),
                    i.length + i.lsb_len)
\* C19: for a field pair f_msb / f_lsb the value stored under f is the bit
\* concatenation of the two raw halves decoded with the sign rule of the msb
\* descriptor, two's complement or signed magnitude, and with its scale;
\* msb 0b00000010 of 8 bits and lsb 0b00000000000011 of 14 bits in two's
\* complement give 32771 before scaling.
C19_PairDecodedWithMsbRule ==
    last.op = "post_process_items" =>
        /\ last.result = PairDecoded(last)
        /\ (last.length = 8 /\ last.lsb_len = 14 /\ last.value = 2 /\ last.lsb_value = 3
               /\ last.sign = "tc") => last.result.m = 32771
\* the same without the signed-magnitude descriptors
C19_PairDecodedUnlessSignedMagnitude ==
    (last.op = "post_process_items" /\ last.sign # "sb") =>
        /\ last.result = PairDecoded(last)
        /\ (last.length = 8 /\ last.lsb_len = 14 /\ last.value = 2 /\ last.lsb_value = 3
               /\ last.sign = "tc") => last.result.m = 32771

\* The layout of frame uuid of a message of class cls holds a packed
\* substructure field.
HasPackedField(cls, uuid) ==
    \E i \in DOMAIN uuid_to_payload(cls, uuid).bp :
        StartsWithAny(uuid_to_payload(cls, uuid).bp[i].name, items_require_spec_postproc(cls))
\* C20: add_frame on a C-NAV frame whose layout holds a packed substructure
\* field (red_alm, cdc, edc) decodes the frame successfully and stores the
\* re-decoded substructure under a key of that name with the sv suffix.
C20_PackedFieldsAreUnpacked ==
    (/\ last.op = "add_frame"
     /\ gnss_msgs[last.t].cls = GPS_CNAV
     /\ HasPackedField(GPS_CNAV, last.uuid)) =>
        /\ last.exc = "none" /\ last.ret
        /\ \E k \in DOMAIN gnss_msgs[last.t].data :
              /\ k[1] = last.uuid
              /\ StartsWithAny(k[2], items_require_spec_postproc(GPS_CNAV))

\* C21: add_subframe on a C-NAV midi almanac (message type 37) of almanac
\* PRN p # 0 is accepted under the uuid 37 * 10 + p and the decoded fields
\* of the message are in the field map of the satellite under that uuid, so
\* that the almanacs of two PRNs lie side by side.
C21_MidiAlmanacsStoredPerPrn ==
    (last.op = "add_subframe" /\ last.block[1] = "cnav" /\ last.block[3] = 37) =>
        /\ last.accepted /\ last.uuid = 37 * 10 + (1 + last.block[4])
        /\ \E k \in DOMAIN gnss_msgs[last.t].data : k[1] = last.uuid
\* the uuid alone
C21_MidiAlmanacUuid ==
    (last.op = "add_subframe" /\ last.block[1] = "cnav" /\ last.block[3] = 37) =>
        /\ last.accepted /\ last.uuid = 37 * 10 + (1 + last.block[4])

\* The fields of the L-NAV ephemeris with the sub-frame that carries them.
LNavEphemerisFields ==
    {<<50, f>> : f \in {"delta_n", "m_zero", "crs", "cuc", "e", "cus", "toe", "iode", "sqrt_a"}}
    \cup {<<75, f>> : f \in {"cic", "omega_zero", "cis", "i_zero", "crc", "omega", "omega_dot",
                              "idot"}}
\* Record e holds for each field in F the value accumulated under its name.
FieldsFromFrames(e, data, F) == \A uf \in F : e[uf[2]] = data[Key(uf[1], uf[2])]
\* C22: an L-NAV ephemeris built by a read from the fields of the uuids 50
\* and 75 holds in every field the accumulated value of the same-named field
\* of sub-frame 2 or 3, omega_dot and idot included.
C22_LNavEphemerisFromSameNamedFields ==
    [][\A t \in DOMAIN gnss_msgs :
          (/\ gnss_msgs[t].cls = GPS_LNAV /\ last'.op = "ephemeris" /\ last'.t = t
           /\ gnss_msgs[t].eph = {} /\ gnss_msgs'[t].eph # {}) =>
              \A e \in gnss_msgs'[t].eph :
                  FieldsFromFrames(e, gnss_msgs'[t].data, LNavEphemerisFields)]_vars
\* the same for every field but omega_dot
C22_LNavEphemerisButOmegaDot ==
    [][\A t \in DOMAIN gnss_msgs :
          (/\ gnss_msgs[t].cls = GPS_LNAV /\ last'.op = "ephemeris" /\ last'.t = t
           /\ gnss_msgs[t].eph = {} /\ gnss_msgs'[t].eph # {}) =>
              \A e \in gnss_msgs'[t].eph :
                  FieldsFromFrames(e, gnss_msgs'[t].data,
                                   LNavEphemerisFields \ {<<75, "omega_dot">>})]_vars

\* The uuid, the message type and the accept/reject decision of two
\* identifications agree.
SameIdentification(p, q) ==
    p.uuid = q.uuid /\ p.nav_msg_id = q.nav_msg_id /\ p.exc = q.exc
\* C23: the uuid and the accept/reject decision of a frame depend on the
\* frame and its metadata only: after every ingest history a block of the
\* recording is identified as it is on a fresh handle, Galileo word type 10
\* included.
C23_IdentificationIgnoresHistory ==
    \A b \in record :
        SameIdentification(preprocess_ubx(Ubx[b], static_galileo_alm_helper),
                           preprocess_ubx(Ubx[b], NewHandle.helper))
\* the same for every block but the Galileo words of type 10
C23_IdentificationButGalWord10 ==
    \A b \in record :
        ~(Ubx[b].gnssId = UbxGalileo /\ b[3] = 10) =>
            SameIdentification(preprocess_ubx(Ubx[b], static_galileo_alm_helper),
                               preprocess_ubx(Ubx[b], NewHandle.helper))

\* The step is add_subframe on GLONASS string st of frame f (0: no frame
\* number delivered) of a known satellite.
GlonStep(b, f, st) ==
    /\ b[1] = "glo" /\ b[2] # 255
    /\ b[3] \div 100 = f /\ b[3] % 100 = st
\* add_subframe on a GLONASS string that is discarded: not accepted and
\* nothing stored.
StoresNothing ==
    /\ ~last'.accepted /\ ~last'.ret
    /\ raw_data' = raw_data /\ gnss_msgs' = gnss_msgs
\* C24 as stated: strings 1..5 get the uuid string_number, strings 6..15 of
\* frame f in 1..5 the uuid f * 10 + string_number, strings 6..15 without a
\* frame number are discarded and store nothing.
C24_GlonUuidIsSum ==
    [][last'.op = "add_subframe" =>
         \A f \in 0..5 : \A st \in 1..15 :
            GlonStep(last'.block, f, st) =>
               /\ st <= 5 => (last'.accepted /\ last'.uuid = st)
               /\ (st >= 6 /\ f >= 1) => (last'.accepted /\ last'.uuid = f * 10 + st)
               /\ (st >= 6 /\ f = 0) => StoresNothing]_vars
\* C24 amended: strings 6..15 of frame f in 1..5 get the uuid whose decimal
\* digits are those of f followed by those of the string number, f * 10 +
\* string_number for the strings 6..9 and f * 100 + string_number for the
\* strings 10..15; the rest as stated.
C24_GlonUuidIsDigits ==
    [][last'.op = "add_subframe" =>
         \A f \in 0..5 : \A st \in 1..15 :
            GlonStep(last'.block, f, st) =>
               /\ st <= 5 => (last'.accepted /\ last'.uuid = st)
               /\ (st >= 6 /\ f >= 1) =>
                     /\ last'.accepted
                     /\ last'.uuid = IF st < 10 THEN f * 10 + st ELSE f * 100 + st
               /\ (st >= 6 /\ f = 0) => StoresNothing]_vars
C24_Witness ==
    /\ last.op = "add_subframe" /\ GlonStep(last.block, 1, 10)
    /\ last.accepted /\ last.uuid = 110
    /\ \E k \in DOMAIN gnss_msgs[last.t].data : k[1] = 110

\* The bits of string from bit offset lo upwards are the 32 bits of word w
\* moved to lo..lo + 31 bits, up to the bit hi.
WordAt(string, w, lo, hi) ==
    {b \in string : b >= lo /\ b < hi} = {b + lo : b \in {x \in w : x < 32}}
\* C25: the GLONASS string handed to the accumulator is the plain
\* concatenation of the data words: the 32 bits of the first word in the
\* bits 53..84, the 32 bits of the second word in the bits 21..52, 21 bits of
\* the third word (its upper or its lower 21) in the bits 0..20.
C25_GlonStringIsConcatenation ==
    (last.op = "add_subframe" /\ last.accepted /\ last.block[1] = "glo") =>
        /\ WordAt(RawGet(raw_data[last.t], last.uuid), Ubx[last.block].dwrds[1], 53, 85)
        /\ WordAt(RawGet(raw_data[last.t], last.uuid), Ubx[last.block].dwrds[2], 21, 53)
        /\ {b \in RawGet(raw_data[last.t], last.uuid) : b < 21}
              \in {{b \in Ubx[last.block].dwrds[3] : b < 21},
                   {b - 11 : b \in {x \in Ubx[last.block].dwrds[3] : x >= 11}}}

\* C26: add_subframe on a 300-bit L-NAV frame of sub-frame id 1..3 accepts
\* it under the uuid sub-frame * 25 (50 for sub-frame 2); of sub-frame id 4
\* or 5 with data id 1 and an SV id of the page lookup under the uuid
\* sub-frame * 25 + page - 1 (100 for sub-frame 4, SV id 57); every other
\* frame (sub-frame id outside 1..5, SV id 0, another data id, SV id not in
\* the lookup) is rejected and nothing is stored.
C26_LNavUuid ==
    [][(last'.op = "add_subframe" /\ last'.block[1] = "lnavid") =>
         \A sf_id \in 0..7 : \A sv_id \in 0..63 :
            (last'.block[3] = sf_id * 100 + sv_id) =>
               IF sf_id \in 1..3
               THEN last'.accepted /\ last'.uuid = sf_id * 25 /\ (sf_id = 2 => last'.uuid = 50)
               ELSE IF /\ sf_id \in 4..5 /\ last'.block[4] = 1 /\ sv_id # 0
                       /\ page_lookup(sf_id, sv_id) # 0
               THEN /\ last'.accepted
                    /\ last'.uuid = sf_id * 25 + (page_lookup(sf_id, sv_id) - 1)
                    /\ (sf_id = 4 /\ sv_id = 57) => last'.uuid = 100
               ELSE StoresNothing]_vars
C26_Witness ==
    /\ last.op = "add_subframe" /\ last.block = <<"lnavid", 1, 457, 1>>
    /\ last.accepted /\ last.uuid = 100
    /\ <<UbxGps, 1, GPS_LNAV>> \in DOMAIN raw_data

\* C27: every record of a BeiDou D1 almanac lies in the almanac PRN space of
\* the constellation, 1..30 for the base and 31..63 for the expanded
\* almanacs, and carries the PRN it is stored under.
C27_BdsAlmanacPrnInRange ==
    \A t \in DOMAIN gnss_msgs :
        gnss_msgs[t].cls = BEID_D1 =>
            \A p \in DOMAIN gnss_msgs[t].alm :
                p \in 1..63 /\ gnss_msgs[t].alm[p].svid = Num(p, NoScale)

\* The layout that the table holds for page page_num of sub-frame sf_id of
\* BeiDou D1: the almanac layout for sub-frame 4 and the pages 1..6 of
\* sub-frame 5, the pages 7..10, the expanded almanac, the page 24.
BdsPageLayout(sf_id, page_num) ==
    IF sf_id = 4 \/ page_num \in 1..6 THEN BdsSubframe4
    ELSE IF page_num \in 7..10 THEN Payload_BDS_D1_NAV[<<"subframe", page_num>>]
    ELSE IF page_num \in 11..23 THEN BdsSubframe11
    ELSE BdsSubframe24
\* C28: add_subframe on a BeiDou D1 page 1..24 of sub-frame 4 or 5 that the
\* identifier gives a uuid decodes it with the layout of that sub-frame and
\* page, so that the fields of the layout are in the field map under the
\* uuid; a page of sub-frame 4 never meets a missing layout.
C28_BdsUuidFindsItsLayout ==
    (/\ last.op = "add_subframe" /\ last.accepted
     /\ last.block[1] \in {"bds", "bdsam3"} /\ last.block[2] \in BdsD1_SV_IDs
     /\ last.block[3] \div 100 \in {4, 5} /\ last.block[3] % 100 \in 1..24) =>
        /\ BdsD1_uuid_to_payload(last.uuid).bp
              = BdsPageLayout(last.block[3] \div 100, last.block[3] % 100)
        /\ \A i \in DOMAIN BdsD1_uuid_to_payload(last.uuid).bp :
              <<last.uuid, BdsD1_uuid_to_payload(last.uuid).bp[i].name>>
                  \in DOMAIN gnss_msgs[last.t].data
\* the same for every page but page 24 of sub-frame 4
C28_BdsUuidFindsItsLayoutButPage24 ==
    (/\ last.op = "add_subframe" /\ last.accepted
     /\ last.block[1] \in {"bds", "bdsam3"} /\ last.block[2] \in BdsD1_SV_IDs
     /\ last.block[3] \div 100 \in {4, 5} /\ last.block[3] % 100 \in 1..24
     /\ last.block[3] # 424) =>
        /\ BdsD1_uuid_to_payload(last.uuid).bp
              = BdsPageLayout(last.block[3] \div 100, last.block[3] % 100)
        /\ \A i \in DOMAIN BdsD1_uuid_to_payload(last.uuid).bp :
              <<last.uuid, BdsD1_uuid_to_payload(last.uuid).bp[i].name>>
                  \in DOMAIN gnss_msgs[last.t].data

\* C29: the snapshot decode_nav_msgs returns holds, for every triple of
\* gnss_msgs, a message whose field map equals the field map of the message
\* add_subframe maintains for the triple.
C29_SnapshotEqualsIncremental ==
    last.op = "decode_nav_msgs" =>
        \A t \in DOMAIN gnss_msgs :
            /\ t \in DOMAIN last.snapshot
            /\ last.snapshot[t].data = gnss_msgs[t].data
\* the same for the triples none of whose stored frames makes add_frame raise
C29_SnapshotEqualsIncrementalWithoutFailure ==
    last.op = "decode_nav_msgs" =>
        \A t \in DOMAIN gnss_msgs :
            /\ t \in DOMAIN last.snapshot
            /\ (\A i \in DOMAIN raw_data[t] :
                    Alone(gnss_msgs[t].cls, raw_data[t][i].uuid,
                          raw_data[t][i].payload).exc = "none")
                 => last.snapshot[t].data = gnss_msgs[t].data


\* C30: after every add_subframe the raw-data store and the message store
\* hold the same triples <<gnss_id, sv_id, nav_msg_id>>, the message of a
\* triple is of the class of its nav_msg_id and carries its sv_id, and no
\* operation removes a triple.
C30_StoresHoldTheSameTriples ==
    [][/\ DOMAIN raw_data' = DOMAIN gnss_msgs'
       /\ \A t \in DOMAIN gnss_msgs' :
             /\ gnss_msgs'[t].cls = t[3]
             /\ gnss_msgs'[t].svid = t[2]
       /\ DOMAIN raw_data \subseteq DOMAIN raw_data'
       /\ DOMAIN gnss_msgs \subseteq DOMAIN gnss_msgs']_vars
\* two triples are stored, the newer one by a frame whose decoding failed
C30_Witness ==
    /\ last.op = "add_subframe" /\ last.accepted /\ last.failed # "none"
    /\ Len(raw_data[last.t]) = 1
    /\ last.t \in DOMAIN gnss_msgs
    /\ Cardinality(DOMAIN raw_data) >= 2

====
